---- MODULE Spec2Model ----
(***************************************************************************)
(* GTDynamics: the robot model (UniversalRobot), the dynamics graph        *)
(* builder (DynamicsGraphBuilder) and the forward-dynamics Simulator.      *)
(*                                                                         *)
(* Numbers.  Poses, twists, twist accelerations and wrenches are 6-vectors *)
(* in the code; the model keeps ONE component of each (a scalar            *)
(* projection), so every factor keeps its keys, its signs and its          *)
(* right-hand side, and the linear system stays solvable by exact integer  *)
(* arithmetic.  Angles are integers; a link's rotation acts on gravity     *)
(* through Cos4 (quarter turns).  Inputs are chosen so that every division *)
(* the code performs is exact.                                             *)
(***************************************************************************)
EXTENDS Integers, Sequences, FiniteSets, TLC

VARIABLES
  sim, fresh, replaying, simRet, since,   \* the Simulator and a second one
  gIn, gOut,                              \* a graph-construction call and its result
  urdf, rob, robRet                       \* a robot description, the robot, the last call

simVars == <<sim, fresh, replaying, simRet, since>>
graphVars == <<gIn, gOut>>
robotVars == <<urdf, rob, robRet>>
vars == <<sim, fresh, replaying, simRet, since, gIn, gOut, urdf, rob, robRet>>

(***************************************************************************)
(* Bounds of the model.                                                    *)
(***************************************************************************)
MaxCalls == 3
MaxResetT == 1
MaxDegree == 5
MaxT == 1
MaxNumSteps == 2
MaxPhases == 2
MaxPhaseSteps == 2
MaxObjectives == 3
MaxWalkPhases == 3
MaxIterations == 3
MaxInterpPhases == 2
MaxTime == 3

(***************************************************************************)
(* Generic helpers.                                                        *)
(***************************************************************************)
RECURSIVE Concat(_)
Concat(ss) == IF ss = <<>> THEN <<>> ELSE Head(ss) \o Concat(Tail(ss))

Range(s) == {s[k] : k \in DOMAIN s}

RECURSIVE SumSeq(_)
SumSeq(s) == IF s = <<>> THEN 0 ELSE Head(s) + SumSeq(Tail(s))

\* boost::optional<T>: <<>> is boost::none, <<x>> holds x
None == <<>>
Some(x) == <<x>>

\* std::map insert of a whole map; the left operand's entries win
Merge(f, g) == [k \in (DOMAIN f) \cup (DOMAIN g) |-> IF k \in DOMAIN f THEN f[k] ELSE g[k]]

EmptyMap == [k \in {} |-> 0]

(***************************************************************************)
(* Robots.  A link is [name, fixed, mass]; a joint is [name, parent,       *)
(* child] with parent and child link ids; the id of a link or joint is its *)
(* position in the robot's list.                                           *)
(***************************************************************************)
LinkName(i) == <<"l", i>>
JointName(j) == <<"j", j>>

MkRobot(nLinks, fixedIds, masses, pairs) ==
  [ links  |-> [i \in 1..nLinks |->
                  [name |-> LinkName(i), fixed |-> i \in fixedIds, mass |-> masses[i]]],
    joints |-> [j \in 1..Len(pairs) |->
                  [name |-> JointName(j), parent |-> pairs[j][1], child |-> pairs[j][2]]] ]

\* RobotLink::getJoints: the joints incident to link i, in joint order
getJoints(robot, i) ==
  LET inc(j) == robot.joints[j].parent = i \/ robot.joints[j].child = i
      F[j \in 0..Len(robot.joints)] ==
        IF j = 0 THEN <<>> ELSE IF inc(j) THEN Append(F[j-1], j) ELSE F[j-1]
  IN F[Len(robot.joints)]

JointNames(robot) == {robot.joints[j].name : j \in DOMAIN robot.joints}

(***************************************************************************)
(* Variable keys (role, link id, joint id, timestep); 0 where a key has no *)
(* link or no joint.                                                       *)
(***************************************************************************)
PoseKey(i, t)       == <<"p", i, 0, t>>
TwistKey(i, t)      == <<"V", i, 0, t>>
TwistAccelKey(i, t) == <<"A", i, 0, t>>
WrenchKey(i, j, t)  == <<"F", i, j, t>>
TorqueKey(j, t)     == <<"T", 0, j, t>>
JointAngleKey(j, t) == <<"q", 0, j, t>>
JointVelKey(j, t)   == <<"v", 0, j, t>>
JointAccelKey(j, t) == <<"a", 0, j, t>>
PhaseKey(k)         == <<"phase", 0, 0, k>>

KeyTime(key) == key[4]

(***************************************************************************)
(* Forward kinematics (UniversalRobot::forwardKinematics): poses and       *)
(* twists of all links, propagated from the links that have no parent      *)
(* joint.  A link's pose is its parent's pose advanced by the joint angle, *)
(* its twist the parent's twist plus the joint velocity.                   *)
(***************************************************************************)
ParentJoints(robot, i) == {j \in DOMAIN robot.joints : robot.joints[j].child = i}

RECURSIVE LinkPose(_, _, _, _)
LinkPose(robot, qs, i, fuel) ==
  IF ParentJoints(robot, i) = {} \/ fuel = 0 THEN 0
  ELSE LET j == CHOOSE k \in ParentJoints(robot, i) : \A m \in ParentJoints(robot, i) : k <= m
       IN LinkPose(robot, qs, robot.joints[j].parent, fuel - 1) + qs[robot.joints[j].name]

RECURSIVE LinkTwist(_, _, _, _)
LinkTwist(robot, vs, i, fuel) ==
  IF ParentJoints(robot, i) = {} \/ fuel = 0 THEN 0
  ELSE LET j == CHOOSE k \in ParentJoints(robot, i) : \A m \in ParentJoints(robot, i) : k <= m
       IN LinkTwist(robot, vs, robot.joints[j].parent, fuel - 1) + vs[robot.joints[j].name]

forwardKinematics(robot, qs, vs) ==
  IF ~(JointNames(robot) \subseteq DOMAIN qs) \/ ~(JointNames(robot) \subseteq DOMAIN vs)
  THEN [threw |-> "out_of_range"]
  ELSE [threw |-> "",
        poses  |-> [n \in {robot.links[i].name : i \in DOMAIN robot.links} |->
                      LinkPose(robot, qs, n[2], Len(robot.links))],
        twists |-> [n \in {robot.links[i].name : i \in DOMAIN robot.links} |->
                      LinkTwist(robot, vs, n[2], Len(robot.links))]]

\* the kept component of R^T * g for a link rotated by `pose` quarter turns
Cos4(pose) == LET r == pose % 4 IN IF r = 0 THEN 1 ELSE IF r = 2 THEN -1 ELSE 0

(***************************************************************************)
(* The linear forward-dynamics graph.  A linear factor is                  *)
(* [kind, keys, coef, rhs]: sum_k coef[k] * x[keys[k]] = rhs.              *)
(***************************************************************************)
LinFactor(kind, keys, coef, rhs) == [kind |-> kind, keys |-> keys, coef |-> coef, rhs |-> rhs]

\* the link factor with the wrenches added to the balance, not subtracted
linearLinkFactorsWrenchesAdded(robot, t, fk, gravity, i) ==
  LET link == robot.links[i]
      connected_joints == getJoints(robot, i)
      rhs == IF gravity # None THEN Cos4(fk.poses[link.name]) * gravity[1] * link.mass ELSE 0
  IN IF link.fixed
     THEN << LinFactor("PriorTwistAccel", <<TwistAccelKey(i, t)>>, <<1>>, 0) >>
     ELSE IF Len(connected_joints) > 2 THEN << >>
     ELSE << LinFactor(IF Len(connected_joints) = 0 THEN "Wrench0"
                       ELSE IF Len(connected_joints) = 1 THEN "Wrench1" ELSE "Wrench2",
                       <<TwistAccelKey(i, t)>>
                       \o [k \in DOMAIN connected_joints |-> WrenchKey(i, connected_joints[k], t)],
                       <<link.mass>> \o [k \in DOMAIN connected_joints |-> 1], rhs) >>

\* lines 86-133: one factor per link; a non-fixed link with more than two
\* connected joints matches no branch and gets no factor
linearLinkFactors(robot, t, fk, gravity, i) ==
  LET link == robot.links[i]
      connected_joints == getJoints(robot, i)
      G_i == link.mass
      rhs == IF gravity # None THEN Cos4(fk.poses[link.name]) * gravity[1] * link.mass ELSE 0
  IN IF link.fixed
     THEN << LinFactor("PriorTwistAccel", <<TwistAccelKey(i, t)>>, <<1>>, 0) >>
     ELSE IF Len(connected_joints) = 0
     THEN << LinFactor("Wrench0", <<TwistAccelKey(i, t)>>, <<G_i>>, rhs) >>
     ELSE IF Len(connected_joints) = 1
     THEN << LinFactor("Wrench1",
                       <<TwistAccelKey(i, t), WrenchKey(i, connected_joints[1], t)>>,
                       <<G_i, -1>>, rhs) >>
     ELSE IF Len(connected_joints) = 2
     THEN << LinFactor("Wrench2",
                       <<TwistAccelKey(i, t), WrenchKey(i, connected_joints[1], t),
                         WrenchKey(i, connected_joints[2], t)>>,
                       <<G_i, -1, -1>>, rhs) >>
     ELSE << >>

\* a row of a 3x6 matrix with its only 1 in column c
Row6(c) == [k \in 1..6 |-> IF k = c THEN 1 ELSE 0]

\* the planar Jacobian with the rows of the y and the z axis exchanged
getPlanarJacobianYZSwapped(planar_axis) ==
  IF planar_axis[1] = 1 THEN <<Row6(2), Row6(3), Row6(4)>>
  ELSE IF planar_axis[2] = 1 THEN <<Row6(1), Row6(2), Row6(6)>>
  ELSE <<Row6(1), Row6(3), Row6(5)>>

\* lines 52-74; H_wrench is assigned for a unit vector along x, y or z only,
\* which are the axes the model passes
getPlanarJacobian(planar_axis) ==
  IF planar_axis[1] = 1 THEN <<Row6(2), Row6(3), Row6(4)>>
  ELSE IF planar_axis[2] = 1 THEN <<Row6(1), Row6(3), Row6(5)>>
  ELSE IF planar_axis[3] = 1 THEN <<Row6(1), Row6(2), Row6(6)>>
  ELSE "unassigned"

PlanarAxes == {<<1, 0, 0>>, <<0, 1, 0>>, <<0, 0, 1>>}

\* lines 135-174: twist acceleration, torque, wrench equivalence and
\* (with a planar axis) planar factor of joint j
linearJointFactors(robot, t, planar_axis, j) ==
  LET joint == robot.joints[j]
      i1 == joint.parent
      i2 == joint.child
  IN << LinFactor("TwistAccel",
                  <<TwistAccelKey(i2, t), TwistAccelKey(i1, t), JointAccelKey(j, t)>>,
                  <<1, -1, -1>>, 0),
        LinFactor("Torque", <<WrenchKey(i2, j, t), TorqueKey(j, t)>>, <<1, -1>>, 0),
        LinFactor("WrenchEquivalence", <<WrenchKey(i1, j, t), WrenchKey(i2, j, t)>>,
                  <<1, 1>>, 0) >>
     \o (IF planar_axis # None
         THEN << [kind |-> "WrenchPlanar", keys |-> <<WrenchKey(i2, j, t)>>, coef |-> <<0>>,
                  rhs |-> 0, J_wrench |-> getPlanarJacobian(planar_axis[1])] >>
         ELSE << >>)

linearDynamicsGraph(robot, t, joint_vels, fk, gravity, planar_axis) ==
  IF ~(JointNames(robot) \subseteq DOMAIN joint_vels)
  THEN [threw |-> "out_of_range", graph |-> <<>>]
  ELSE [threw |-> "",
        graph |-> Concat([i \in DOMAIN robot.links |->
                            linearLinkFactors(robot, t, fk, gravity, i)])
                  \o Concat([j \in DOMAIN robot.joints |->
                            linearJointFactors(robot, t, planar_axis, j)])]

linearFDPriors(robot, t, torques) ==
  IF ~(JointNames(robot) \subseteq DOMAIN torques)
  THEN [threw |-> "out_of_range", graph |-> <<>>]
  ELSE [threw |-> "",
        graph |-> [j \in DOMAIN robot.joints |->
                     LinFactor("PriorTorque", <<TorqueKey(j, t)>>, <<1>>,
                               torques[robot.joints[j].name])]]

GraphKeys(graph) == UNION {Range(graph[f].keys) : f \in DOMAIN graph}

(***************************************************************************)
(* GaussianFactorGraph::optimize: elimination of a system of hard          *)
(* constraints.  A variable is solved from a factor in which it is the     *)
(* only unsolved variable with a non-zero coefficient; a system that       *)
(* leaves a variable undetermined is ill-posed and the solver throws       *)
(* IndeterminantLinearSystemException.                                     *)
(***************************************************************************)
Unsolved(f, sol) == {k \in DOMAIN f.keys : f.keys[k] \notin DOMAIN sol /\ f.coef[k] # 0}

Known(f, sol) ==
  SumSeq([k \in DOMAIN f.keys |->
            IF f.keys[k] \in DOMAIN sol THEN f.coef[k] * sol[f.keys[k]] ELSE 0])

RECURSIVE Eliminate(_, _)
Eliminate(graph, sol) ==
  LET ready == {f \in DOMAIN graph : Cardinality(Unsolved(graph[f], sol)) = 1}
  IN IF ready = {} THEN sol
     ELSE LET f == graph[CHOOSE x \in ready : \A y \in ready : x <= y]
              k == CHOOSE x \in Unsolved(f, sol) : TRUE
          IN Eliminate(graph, (f.keys[k] :> ((f.rhs - Known(f, sol)) \div f.coef[k])) @@ sol)

linearOptimize(graph) ==
  LET sol == Eliminate(graph, EmptyMap)
  IN IF DOMAIN sol = GraphKeys(graph)
     THEN [threw |-> "", values |-> sol]
     ELSE [threw |-> "IndeterminantLinearSystemException", values |-> EmptyMap]

(***************************************************************************)
(* DynamicsGraphBuilder::linearSolveFD and jointAccelsMap.  A value that   *)
(* the code holds in a local is passed on as an operator parameter.        *)
(***************************************************************************)
\* lines 212-236: arrange the solved values
arrangeValues(robot, t, joint_angles, joint_vels, torques, fk, results) ==
  LET jointValues(j) ==
        LET joint == robot.joints[j]
        IN (JointAngleKey(j, t) :> joint_angles[joint.name])
           @@ (JointVelKey(j, t) :> joint_vels[joint.name])
           @@ (JointAccelKey(j, t) :> results[JointAccelKey(j, t)])
           @@ (TorqueKey(j, t) :> torques[joint.name])
           @@ (WrenchKey(joint.parent, j, t) :> results[WrenchKey(joint.parent, j, t)])
           @@ (WrenchKey(joint.child, j, t) :> results[WrenchKey(joint.child, j, t)])
      linkValues(i) ==
        LET name == robot.links[i].name
        IN (PoseKey(i, t) :> fk.poses[name])
           @@ (TwistKey(i, t) :> fk.twists[name])
           @@ (TwistAccelKey(i, t) :> results[TwistAccelKey(i, t)])
      JV[j \in 0..Len(robot.joints)] == IF j = 0 THEN EmptyMap ELSE Merge(JV[j-1], jointValues(j))
      LV[i \in 0..Len(robot.links)] == IF i = 0 THEN EmptyMap ELSE Merge(LV[i-1], linkValues(i))
  IN IF ~(JointNames(robot) \subseteq DOMAIN joint_angles)
     THEN [threw |-> "out_of_range", values |-> EmptyMap]
     ELSE [threw |-> "", values |-> Merge(JV[Len(robot.joints)], LV[Len(robot.links)])]

\* line 209 and what follows it
solveAndArrange(robot, t, joint_angles, joint_vels, torques, fk, results) ==
  IF results.threw # "" THEN [threw |-> results.threw, values |-> EmptyMap]
  ELSE arrangeValues(robot, t, joint_angles, joint_vels, torques, fk, results.values)

\* lines 203-209: the graph, the torque priors, the solve
solveFD(robot, t, joint_angles, joint_vels, torques, fk, g, priors) ==
  IF g.threw # "" THEN [threw |-> g.threw, values |-> EmptyMap]
  ELSE IF priors.threw # "" THEN [threw |-> priors.threw, values |-> EmptyMap]
  ELSE solveAndArrange(robot, t, joint_angles, joint_vels, torques, fk,
                       linearOptimize(g.graph \o priors.graph))

linearSolveFD(robot, t, joint_angles, joint_vels, torques, fk, gravity, planar_axis) ==
  solveFD(robot, t, joint_angles, joint_vels, torques, fk,
          linearDynamicsGraph(robot, t, joint_vels, fk, gravity, planar_axis),
          linearFDPriors(robot, t, torques))

jointAccelsMap(robot, result, t) ==
  [n \in JointNames(robot) |-> result[JointAccelKey(n[2], t)]]

(***************************************************************************)
(* Simulator.  A Simulator object is a record of its fields; a call        *)
(* returns [threw, sim]: the exception it ended in ("" for none) and the   *)
(* object after it.                                                        *)
(***************************************************************************)
\* reset that leaves the accelerations of the last step in place
resetKeepsAccels(s, t) ==
  [s EXCEPT !.t_ = t, !.qs_ = s.initial_angles_, !.vs_ = s.initial_vels_,
            !.results_ = EmptyMap]

\* reset that leaves the result log in place
resetKeepsLog(s, t) ==
  [s EXCEPT !.t_ = t, !.qs_ = s.initial_angles_, !.vs_ = s.initial_vels_,
            !.as_ = EmptyMap]

reset(s, t) ==
  [s EXCEPT !.t_ = t,
            !.qs_ = s.initial_angles_,
            !.vs_ = s.initial_vels_,
            !.as_ = EmptyMap,
            !.results_ = EmptyMap]

Simulator(robot, initial_angles, initial_vels, gravity, planar_axis) ==
  reset([robot_ |-> robot, t_ |-> 0,
         initial_angles_ |-> initial_angles, initial_vels_ |-> initial_vels,
         gravity_ |-> gravity, planar_axis_ |-> planar_axis,
         qs_ |-> EmptyMap, vs_ |-> EmptyMap, as_ |-> EmptyMap, results_ |-> EmptyMap], 0)

\* forwardDynamics that swallows the exception of the solve
insertResultSwallows(s, result) ==
  IF result.threw # "" THEN [threw |-> "", sim |-> s]
  ELSE [threw |-> "",
        sim |-> [s EXCEPT !.results_ = Merge(s.results_, result.values),
                          !.as_ = jointAccelsMap(s.robot_, result.values, s.t_)]]

\* lines 82-85.  Values::insert(const Values&) throws ValuesKeyAlreadyExists on
\* a key that is already there
insertResult(s, result) ==
  IF result.threw # "" THEN [threw |-> result.threw, sim |-> s]
  ELSE IF (DOMAIN result.values) \cap (DOMAIN s.results_) # {}
  THEN [threw |-> "ValuesKeyAlreadyExists", sim |-> s]
  ELSE [threw |-> "",
        sim |-> [s EXCEPT !.results_ = Merge(s.results_, result.values),
                          !.as_ = jointAccelsMap(s.robot_, result.values, s.t_)]]

\* line 81 and what follows it
solveWithKinematics(s, torques, fk_results) ==
  IF fk_results.threw # "" THEN [threw |-> fk_results.threw, sim |-> s]
  ELSE insertResult(s, linearSolveFD(s.robot_, s.t_, s.qs_, s.vs_, torques, fk_results,
                                     s.gravity_, s.planar_axis_))

forwardDynamics(s, torques) ==
  solveWithKinematics(s, torques, forwardKinematics(s.robot_, s.qs_, s.vs_))

\* integration that advances the angle with the updated velocity
integrationNewVel(s, dt) ==
  LET names == JointNames(s.robot_)
      vs_new == [n \in names |-> s.vs_[n] + dt * s.as_[n]]
      qs_new == [n \in names |-> s.qs_[n] + dt * vs_new[n] + (s.as_[n] * dt * dt) \div 2]
  IN IF ~(names \subseteq DOMAIN s.vs_ /\ names \subseteq DOMAIN s.as_ /\ names \subseteq DOMAIN s.qs_)
     THEN [threw |-> "out_of_range", sim |-> s]
     ELSE [threw |-> "", sim |-> [s EXCEPT !.vs_ = vs_new, !.qs_ = qs_new]]

\* as_.at(name) and the like throw std::out_of_range for a missing joint.
\* 0.5 * a * dt^2 is exact: every acceleration the inputs produce is even
integration(s, dt) ==
  LET names == JointNames(s.robot_)
      vs_new == [n \in names |-> s.vs_[n] + dt * s.as_[n]]
      qs_new == [n \in names |-> s.qs_[n] + dt * s.vs_[n] + (s.as_[n] * dt * dt) \div 2]
  IN IF ~(names \subseteq DOMAIN s.vs_ /\ names \subseteq DOMAIN s.as_ /\ names \subseteq DOMAIN s.qs_)
     THEN [threw |-> "out_of_range", sim |-> s]
     ELSE [threw |-> "", sim |-> [s EXCEPT !.vs_ = vs_new, !.qs_ = qs_new]]

\* step that forgets t_++
countForgets(r) == r

\* line 114, reached when integration returned
count(r) ==
  IF r.threw # "" THEN r ELSE [threw |-> "", sim |-> [r.sim EXCEPT !.t_ = @ + 1]]

\* lines 113-114, reached when forwardDynamics returned
integrateAndCount(fd, dt) ==
  IF fd.threw # "" THEN fd ELSE count(integration(fd.sim, dt))

\* step that counts before it solves
stepCountsFirst(s, torques, dt) ==
  LET r == integrateAndCount(forwardDynamics([s EXCEPT !.t_ = @ + 1], torques), dt)
  IN IF r.threw # "" THEN r ELSE [threw |-> "", sim |-> [r.sim EXCEPT !.t_ = @ - 1]]

step(s, torques, dt) == integrateAndCount(forwardDynamics(s, torques), dt)

RECURSIVE simulate(_, _, _)
simulateRest(r, rest, dt) == IF r.threw # "" THEN r ELSE simulate(r.sim, rest, dt)

simulate(s, torques_seq, dt) ==
  IF torques_seq = <<>> THEN [threw |-> "", sim |-> s]
  ELSE simulateRest(step(s, Head(torques_seq), dt), Tail(torques_seq), dt)

(***************************************************************************)
(* The Simulator under test: robots, constructor arguments and inputs.     *)
(***************************************************************************)
ChainRobot  == MkRobot(3, {1}, <<1, 1, 2>>, << <<1, 2>>, <<2, 3>> >>)
SingleRobot == MkRobot(2, {1}, <<1, 2>>, << <<1, 2>> >>)
\* link 2 is not fixed and has three joints
StarRobot   == MkRobot(4, {1}, <<1, 1, 1, 1>>, << <<1, 2>>, <<2, 3>>, <<2, 4>> >>)

ConstMap(robot, x) == [n \in JointNames(robot) |-> x]

SimConfigs ==
  { [robot |-> ChainRobot,
     initial_angles |-> (JointName(1) :> 0) @@ (JointName(2) :> 1),
     initial_vels |-> (JointName(1) :> 1) @@ (JointName(2) :> 0),
     gravity |-> Some(-2), planar_axis |-> None],
    [robot |-> SingleRobot,
     initial_angles |-> ConstMap(SingleRobot, 2), initial_vels |-> ConstMap(SingleRobot, 0),
     gravity |-> None, planar_axis |-> Some(<<0, 0, 1>>)],
    [robot |-> StarRobot,
     initial_angles |-> ConstMap(StarRobot, 0), initial_vels |-> ConstMap(StarRobot, 1),
     gravity |-> Some(-2), planar_axis |-> None] }

TorqueVals == {0, 4}
DtVals == {1, 2}

\* torques for every joint, and one map that lacks the torque of joint 1
TorqueMaps(robot) ==
  [JointNames(robot) -> TorqueVals]
    \cup { [n \in JointNames(robot) \ {JointName(1)} |-> 0] }

\* the torque maps a simulate() sequence is drawn from
SimulateMaps(robot) ==
  { ConstMap(robot, 4), [n \in JointNames(robot) \ {JointName(1)} |-> 0] }

\* the parts of the state a specification does not use stay as they start
GraphIdle == gIn = <<>> /\ gOut = <<>>
RobotIdle == urdf = <<>> /\ rob = <<>> /\ robRet = <<>>

NewSimulator(c) ==
  Simulator(c.robot, c.initial_angles, c.initial_vels, c.gravity, c.planar_axis)

SimInit ==
  /\ \E c \in SimConfigs : sim = NewSimulator(c) /\ fresh = NewSimulator(c)
  /\ replaying = FALSE
  /\ simRet = [seq |-> 0, op |-> "Simulator", threw |-> "", torques |-> <<>>, dt |-> 0, t |-> 0]
  /\ since = [t0 |-> 0, n |-> 0, prior |-> 0]
  /\ GraphIdle
  /\ RobotIdle

\* since: the argument of the last reset, the steps that succeeded after it and
\* those that had succeeded before it.
\* The number of steps of a sequence that end without an exception
RECURSIVE CountOK(_, _, _)
CountOKRest(r, rest, dt) == IF r.threw # "" THEN 0 ELSE 1 + CountOK(r.sim, rest, dt)

CountOK(s, torques_seq, dt) ==
  IF torques_seq = <<>> THEN 0
  ELSE CountOKRest(step(s, Head(torques_seq), dt), Tail(torques_seq), dt)

Returned(r, op, torques_seq, dt) ==
  /\ sim' = r.sim
  /\ simRet' = [seq |-> simRet.seq + 1, op |-> op, threw |-> r.threw,
                torques |-> torques_seq, dt |-> dt, t |-> 0]

Step ==
  /\ simRet.seq < MaxCalls
  /\ \E torques \in TorqueMaps(sim.robot_), dt \in DtVals :
       /\ Returned(step(sim, torques, dt), "step", <<torques>>, dt)
       /\ fresh' = IF replaying THEN step(fresh, torques, dt).sim ELSE fresh
       /\ since' = [since EXCEPT !.n = @ + CountOK(sim, <<torques>>, dt)]
  /\ UNCHANGED <<replaying, graphVars, robotVars>>

Simulate ==
  /\ simRet.seq < MaxCalls
  /\ \E t1 \in SimulateMaps(sim.robot_), t2 \in SimulateMaps(sim.robot_), dt \in DtVals :
       /\ Returned(simulate(sim, <<t1, t2>>, dt), "simulate", <<t1, t2>>, dt)
       /\ fresh' = IF replaying THEN simulate(fresh, <<t1, t2>>, dt).sim ELSE fresh
       /\ since' = [since EXCEPT !.n = @ + CountOK(sim, <<t1, t2>>, dt)]
  /\ UNCHANGED <<replaying, graphVars, robotVars>>

\* reset(t) on the Simulator; a second Simulator is constructed from the same
\* arguments and from now on receives the same calls
Reset ==
  /\ simRet.seq < MaxCalls
  /\ \E t \in 0..MaxResetT :
       /\ sim' = reset(sim, t)
       /\ simRet' = [seq |-> simRet.seq + 1, op |-> "reset", threw |-> "",
                     torques |-> <<>>, dt |-> 0, t |-> t]
       /\ since' = [t0 |-> t, n |-> 0, prior |-> since.n]
  /\ fresh' = Simulator(sim.robot_, sim.initial_angles_, sim.initial_vels_,
                        sim.gravity_, sim.planar_axis_)
  /\ replaying' = TRUE
  /\ UNCHANGED <<graphVars, robotVars>>

SimNext == Step \/ Simulate \/ Reset

SpecSim == SimInit /\ [][SimNext]_vars

(***************************************************************************)
(* Properties of the Simulator (SpecSim).                                  *)
(***************************************************************************)
\* every key linearSolveFD writes for timestep t
StepKeys(robot, t) ==
  UNION { { JointAngleKey(j, t), JointVelKey(j, t), JointAccelKey(j, t), TorqueKey(j, t),
            WrenchKey(robot.joints[j].parent, j, t), WrenchKey(robot.joints[j].child, j, t) }
          : j \in DOMAIN robot.joints }
  \cup UNION { { PoseKey(i, t), TwistKey(i, t), TwistAccelKey(i, t) } : i \in DOMAIN robot.links }

\* this transition is a call of step that returned
StepReturned == simRet'.seq # simRet.seq /\ simRet'.op = "step" /\ simRet'.threw = ""

\* C1: a successful step increases t_ by exactly 1 and adds to the log the
\* variables of that step, keyed with the value t_ had before the step, leaving
\* the older entries as they were; so after n successful steps following
\* reset(t0), t_ = t0 + n and the log holds exactly the keys of t0..t0+n-1.
C1_StepCountsAndLogs ==
  /\ [](/\ sim.t_ = since.t0 + since.n
        /\ DOMAIN sim.results_
             = UNION {StepKeys(sim.robot_, t) : t \in since.t0 .. (since.t0 + since.n - 1)})
  /\ [][StepReturned =>
          /\ sim'.t_ = sim.t_ + 1
          /\ StepKeys(sim.robot_, sim.t_) \cap DOMAIN sim.results_ = {}
          /\ DOMAIN sim'.results_ = DOMAIN sim.results_ \cup StepKeys(sim.robot_, sim.t_)
          /\ \A k \in DOMAIN sim.results_ : sim'.results_[k] = sim.results_[k]]_vars

C1_Witness ==
  since.t0 = 1 /\ since.n = 2 /\ simRet.op = "step" /\ simRet.threw = "" /\ sim.t_ = 3

\* C2: a successful step leaves, for every joint, v_new = v + a*dt and
\* q_new = q + v*dt + a*dt^2/2 with v the velocity before the step and a the
\* acceleration solved in this step from the angles and velocities before it.
C2_Integration ==
  [][StepReturned =>
       LET tq == simRet'.torques[1]
           dt == simRet'.dt
           solved == linearSolveFD(sim.robot_, sim.t_, sim.qs_, sim.vs_, tq,
                                   forwardKinematics(sim.robot_, sim.qs_, sim.vs_),
                                   sim.gravity_, sim.planar_axis_).values
       IN \A j \in DOMAIN sim.robot_.joints :
            LET n == sim.robot_.joints[j].name
                a == solved[JointAccelKey(j, sim.t_)]
            IN /\ sim'.as_[n] = a
               /\ sim'.results_[JointAccelKey(j, sim.t_)] = a
               /\ sim'.results_[JointAngleKey(j, sim.t_)] = sim.qs_[n]
               /\ sim'.results_[JointVelKey(j, sim.t_)] = sim.vs_[n]
               /\ sim'.vs_[n] = sim.vs_[n] + a * dt
               /\ 2 * sim'.qs_[n] = 2 * sim.qs_[n] + 2 * sim.vs_[n] * dt + a * dt * dt]_vars

\* a step with dt = 2 that found a joint moving and accelerated it
C2_Witness ==
  /\ simRet.op = "step" /\ simRet.threw = "" /\ simRet.dt = 2
  /\ \E n \in DOMAIN sim.as_ : sim.as_[n] # 0 /\ sim.vs_[n] # sim.as_[n] * 2

\* C3: reset(t) empties the log, restores angles and velocities to the values
\* given at construction, clears the accelerations and sets t_ = t; the robot,
\* the options and the stored initial conditions are changed by no call.
C3_Reset ==
  [][/\ sim'.robot_ = sim.robot_
     /\ sim'.gravity_ = sim.gravity_
     /\ sim'.planar_axis_ = sim.planar_axis_
     /\ sim'.initial_angles_ = sim.initial_angles_
     /\ sim'.initial_vels_ = sim.initial_vels_
     /\ (simRet'.seq # simRet.seq /\ simRet'.op = "reset") =>
          /\ sim'.results_ = EmptyMap
          /\ sim'.qs_ = sim.initial_angles_
          /\ sim'.vs_ = sim.initial_vels_
          /\ sim'.as_ = EmptyMap
          /\ sim'.t_ = simRet'.t]_vars

\* a reset(1) that followed two successful steps
C3_Witness ==
  simRet.op = "reset" /\ simRet.t = 1 /\ since.prior = 2 /\ sim.t_ = 1

\* the log with every timestep moved by d
ShiftLog(results, d) ==
  [k \in {<<x[1], x[2], x[3], x[4] + d>> : x \in DOMAIN results} |->
     results[<<k[1], k[2], k[3], k[4] - d>>]]

\* C4: after reset, whatever was stepped before it, the Simulator and a freshly
\* constructed one that receive the same calls agree after every call on the
\* angles, velocities and accelerations, and on the log (whose timesteps start
\* at the argument of reset, 0 by default, instead of 0).
C4_ReplayAfterReset ==
  replaying =>
    /\ sim.qs_ = fresh.qs_
    /\ sim.vs_ = fresh.vs_
    /\ sim.as_ = fresh.as_
    /\ sim.t_ = fresh.t_ + since.t0
    /\ sim.results_ = ShiftLog(fresh.results_, since.t0)

\* steps, then reset, then a successful step on both Simulators
C4_Witness ==
  replaying /\ since.prior >= 1 /\ since.n >= 1 /\ fresh.t_ = 1 /\ fresh.results_ # EmptyMap

\* fewer independent constraints than unknowns: in these graphs every factor
\* with a non-zero coefficient brings a variable of its own, so the rank is the
\* number of such factors
IllPosed(s, torques) ==
  LET fk == forwardKinematics(s.robot_, s.qs_, s.vs_)
      g == linearDynamicsGraph(s.robot_, s.t_, s.vs_, fk, s.gravity_, s.planar_axis_).graph
             \o linearFDPriors(s.robot_, s.t_, torques).graph
  IN Cardinality({f \in DOMAIN g : \E k \in DOMAIN g[f].coef : g[f].coef[k] # 0})
       < Cardinality(GraphKeys(g))

Factor(type, keys) == [type |-> type, keys |-> keys]

Built(graph) == [threw |-> "", graph |-> graph]
Threw(what) == [threw |-> what, graph |-> <<>>]

\* a prior for every link, fixed or not
priorFactorsAll(robot, type, keys) ==
  [i \in DOMAIN robot.links |-> Factor(type, <<keys[i]>>)]

\* lines 244-250, 269-275, 295-301: the prior of a fixed link
priorFactors(robot, type, keys) ==
  Concat([i \in DOMAIN robot.links |->
            IF robot.links[i].fixed THEN << Factor(type, <<keys[i]>>) >> ELSE << >>])

qFactors(robot, t) ==
  priorFactors(robot, "PriorPose", [i \in DOMAIN robot.links |-> PoseKey(i, t)])
  \o [j \in DOMAIN robot.joints |->
        Factor("PoseFactor", << PoseKey(robot.joints[j].parent, t),
                                PoseKey(robot.joints[j].child, t), JointAngleKey(j, t) >>)]

vFactors(robot, t) ==
  priorFactors(robot, "PriorTwist", [i \in DOMAIN robot.links |-> TwistKey(i, t)])
  \o [j \in DOMAIN robot.joints |->
        Factor("TwistFactor", << TwistKey(robot.joints[j].parent, t),
                                 TwistKey(robot.joints[j].child, t),
                                 JointAngleKey(j, t), JointVelKey(j, t) >>)]

aFactors(robot, t) ==
  priorFactors(robot, "PriorTwistAccel", [i \in DOMAIN robot.links |-> TwistAccelKey(i, t)])
  \o [j \in DOMAIN robot.joints |->
        Factor("TwistAccelFactor", << TwistKey(robot.joints[j].child, t),
                                      TwistAccelKey(robot.joints[j].parent, t),
                                      TwistAccelKey(robot.joints[j].child, t),
                                      JointAngleKey(j, t), JointVelKey(j, t),
                                      JointAccelKey(j, t) >>)]

WrenchFactorType(n) ==
  <<"WrenchFactor0", "WrenchFactor1", "WrenchFactor2", "WrenchFactor3", "WrenchFactor4">>[n + 1]

\* the wrench factor whose last branch is a plain else: a link with more than
\* four joints gets the four-wrench factor
wrenchFactorCapped(robot, i, t) ==
  LET connected_joints == getJoints(robot, i)
      n == IF Len(connected_joints) > 4 THEN 4 ELSE Len(connected_joints)
  IN IF robot.links[i].fixed THEN << >>
     ELSE << Factor(WrenchFactorType(n),
                    <<TwistKey(i, t), TwistAccelKey(i, t)>>
                      \o [k \in 1..n |-> WrenchKey(i, connected_joints[k], t)]
                      \o <<PoseKey(i, t)>>) >>

\* lines 325-360: the wrench factor of link i, << >> for a fixed link and for
\* a link no branch builds a factor for (the caller throws for the latter)
wrenchFactor(robot, i, t) ==
  LET connected_joints == getJoints(robot, i)
      n == Len(connected_joints)
      W(k) == WrenchKey(i, connected_joints[k], t)
      head == <<TwistKey(i, t), TwistAccelKey(i, t)>>
  IN IF robot.links[i].fixed THEN << >>
     ELSE IF n = 0 THEN << Factor("WrenchFactor0", head \o <<PoseKey(i, t)>>) >>
     ELSE IF n = 1 THEN << Factor("WrenchFactor1", head \o <<W(1), PoseKey(i, t)>>) >>
     ELSE IF n = 2 THEN << Factor("WrenchFactor2", head \o <<W(1), W(2), PoseKey(i, t)>>) >>
     ELSE IF n = 3
     THEN << Factor("WrenchFactor3", head \o <<W(1), W(2), W(3), PoseKey(i, t)>>) >>
     ELSE IF n = 4
     THEN << Factor("WrenchFactor4", head \o <<W(1), W(2), W(3), W(4), PoseKey(i, t)>>) >>
     ELSE << >>

\* the joint loop without its torque factor
jointDynamicsFactorsNoTorque(robot, t, planar_axis, j) ==
  << Factor("WrenchEquivalenceFactor",
            <<WrenchKey(robot.joints[j].parent, j, t), WrenchKey(robot.joints[j].child, j, t),
              JointAngleKey(j, t)>>) >>

\* lines 363-386
jointDynamicsFactors(robot, t, planar_axis, j) ==
  LET i1 == robot.joints[j].parent
      i2 == robot.joints[j].child
  IN << Factor("WrenchEquivalenceFactor",
               <<WrenchKey(i1, j, t), WrenchKey(i2, j, t), JointAngleKey(j, t)>>),
        Factor("TorqueFactor", <<WrenchKey(i2, j, t), TorqueKey(j, t)>>) >>
     \o (IF planar_axis # None
         THEN << Factor("WrenchPlanarFactor", <<WrenchKey(i2, j, t)>>) >>
         ELSE << >>)

dynamicsFactors(robot, t, gravity, planar_axis) ==
  IF \E i \in DOMAIN robot.links :
       ~robot.links[i].fixed /\ wrenchFactor(robot, i, t) = << >>
  THEN Threw("Wrench factor not defined")
  ELSE Built(Concat([i \in DOMAIN robot.links |-> wrenchFactor(robot, i, t)])
             \o Concat([j \in DOMAIN robot.joints |->
                          jointDynamicsFactors(robot, t, planar_axis, j)]))

\* the one-step graph with the twist factors added before the pose factors
addDynamicsTwistsFirst(q, v, a, d) ==
  IF d.threw # "" THEN d ELSE Built(v \o q \o a \o d.graph)

\* lines 396-400
addDynamics(q, v, a, d) ==
  IF d.threw # "" THEN d ELSE Built(q \o v \o a \o d.graph)

dynamicsFactorGraph(robot, t, gravity, planar_axis) ==
  addDynamics(qFactors(robot, t), vFactors(robot, t), aFactors(robot, t),
              dynamicsFactors(robot, t, gravity, planar_axis))

(***************************************************************************)
(* Collocation.                                                            *)
(***************************************************************************)
CollocationSchemes == {"Euler", "RungeKutta", "Trapezoidal", "HermiteSimpson"}

\* the two expression factors of joint j; << >> when the scheme is neither
\* Euler nor Trapezoidal (the caller throws)
collocationPair(j, t, dtKeys, collocation) ==
  LET q0 == JointAngleKey(j, t)
      q1 == JointAngleKey(j, t + 1)
      v0 == JointVelKey(j, t)
      v1 == JointVelKey(j, t + 1)
      a0 == JointAccelKey(j, t)
      a1 == JointAccelKey(j, t + 1)
  IN IF collocation = "Euler"
     THEN << Factor("EulerQ", dtKeys \o <<q0, v0, q1>>),
             Factor("EulerV", dtKeys \o <<v0, a0, v1>>) >>
     ELSE IF collocation = "Trapezoidal"
     THEN << Factor("TrapezoidalQ", dtKeys \o <<q0, v0, v1, q1>>),
             Factor("TrapezoidalV", dtKeys \o <<v0, a0, a1, v1>>) >>
     ELSE << >>

\* lines 462-493 and 510-542: the throw sits inside the loop over the joints
jointLoop(robot, t, dtKeys, collocation) ==
  IF robot.joints # << >> /\ collocation \notin {"Euler", "Trapezoidal"}
  THEN Threw("runge-kutta and hermite-simpson not implemented yet")
  ELSE Built(Concat([j \in DOMAIN robot.joints |-> collocationPair(j, t, dtKeys, collocation)]))

collocationFactors(robot, t, dt, collocation) == jointLoop(robot, t, << >>, collocation)

\* the collocation group with a duration key of its own for every timestep
multiPhaseCollocationFactorsKeyPerStep(robot, t, phase, collocation) ==
  jointLoop(robot, t, <<PhaseKey(t)>>, collocation)

\* phase counts from 0 as in the code
multiPhaseCollocationFactors(robot, t, phase, collocation) ==
  jointLoop(robot, t, <<PhaseKey(phase)>>, collocation)

(***************************************************************************)
(* Trajectories.  The sub-graphs are added in the order of the code's      *)
(* loops; the first one that throws ends the construction.                 *)
(***************************************************************************)
RECURSIVE AddAll(_, _)
AddAllRest(acc, first, rest) ==
  IF first.threw # "" THEN first ELSE AddAll(acc \o first.graph, rest)

\* graph.add of every sub-graph of parts, in order, onto acc
AddAll(acc, parts) ==
  IF parts = << >> THEN Built(acc) ELSE AddAllRest(acc, Head(parts), Tail(parts))

\* the trajectory with a collocation group after the last timestep as well
trajectoryFGEveryStep(robot, num_steps, dt, collocation, gravity, planar_axis) ==
  AddAll(<< >>,
         Concat([k \in 1..(num_steps + 1) |->
                   << dynamicsFactorGraph(robot, k - 1, gravity, planar_axis),
                      collocationFactors(robot, k - 1, dt, collocation) >>]))

trajectoryFG(robot, num_steps, dt, collocation, gravity, planar_axis) ==
  AddAll(<< >>,
         Concat([k \in 1..(num_steps + 1) |->
                   << dynamicsFactorGraph(robot, k - 1, gravity, planar_axis) >>
                   \o (IF k - 1 < num_steps
                       THEN << collocationFactors(robot, k - 1, dt, collocation) >>
                       ELSE << >>)]))

\* the timestep at which phase p (from 1) starts, as the code's running t
PhaseStart(phase_steps, p) == SumSeq(SubSeq(phase_steps, 1, p - 1))

\* the sub-graphs of phase p with a dynamics graph at every boundary
phaseDynamicsNoTransition(robots, phase_steps, transition_graphs, gravity, planar_axis, p) ==
  LET t0 == SumSeq(SubSeq(phase_steps, 1, p - 1))
  IN [k \in 1..phase_steps[p] |->
        dynamicsFactorGraph(robots[p], t0 + k, gravity, planar_axis)]

\* lines 432-445: the sub-graphs of phase p; t runs on from the phases before
phaseDynamics(robots, phase_steps, transition_graphs, gravity, planar_axis, p) ==
  LET t0 == IF p = 1 THEN 0
            ELSE SumSeq([q \in 1..(p - 1) |-> IF phase_steps[q] >= 1 THEN phase_steps[q] ELSE 1])
  IN [k \in 1..(IF phase_steps[p] >= 1 THEN phase_steps[p] - 1 ELSE 0) |->
        dynamicsFactorGraph(robots[p], t0 + k, gravity, planar_axis)]
     \o (IF p = Len(robots)
         THEN << dynamicsFactorGraph(robots[p],
                   t0 + (IF phase_steps[p] >= 1 THEN phase_steps[p] ELSE 1),
                   gravity, planar_axis) >>
         ELSE << Built(transition_graphs[p]) >>)

\* lines 448-454
phaseCollocation(robots, phase_steps, collocation, p) ==
  [k \in 1..phase_steps[p] |->
     multiPhaseCollocationFactors(robots[p], PhaseStart(phase_steps, p) + k - 1, p - 1,
                                  collocation)]

multiPhaseTrajectoryFG(robots, phase_steps, transition_graphs, collocation, gravity, planar_axis) ==
  AddAll(<< >>,
         << dynamicsFactorGraph(robots[1], 0, gravity, planar_axis) >>
         \o Concat([p \in DOMAIN robots |->
                      phaseDynamics(robots, phase_steps, transition_graphs, gravity,
                                    planar_axis, p)])
         \o Concat([p \in DOMAIN robots |->
                      phaseCollocation(robots, phase_steps, collocation, p)]))

(***************************************************************************)
(* Graph construction as a system: the arguments of a call are drawn at    *)
(* the start, one builder is called, its result is kept.                   *)
(***************************************************************************)
\* link 1 with d joints to d further links, as parent and as child in turn
HubRobot(d, hubFixed) ==
  MkRobot(d + 1, IF hubFixed THEN {1} ELSE {}, [i \in 1..(d + 1) |-> 1],
          [k \in 1..d |-> IF k % 2 = 1 THEN <<1, k + 1>> ELSE <<k + 1, 1>>])

\* three links closed into a loop by joint 3
LoopRobot == MkRobot(3, {1}, <<1, 1, 1>>, << <<1, 2>>, <<2, 3>>, <<3, 1>> >>)

GraphRobots ==
  {HubRobot(d, f) : d \in 0..MaxDegree, f \in BOOLEAN} \cup {ChainRobot, StarRobot, LoopRobot}

SimIdle ==
  sim = << >> /\ fresh = << >> /\ replaying = FALSE /\ simRet = << >> /\ since = << >>

NoCall ==
  [fn |-> "", collocation |-> "", num_steps |-> 0, phase_steps |-> << >>,
   out |-> Built(<< >>)]

Call(fn, collocation, num_steps, phase_steps, out) ==
  [fn |-> fn, collocation |-> collocation, num_steps |-> num_steps,
   phase_steps |-> phase_steps, out |-> out]

GraphInit ==
  /\ gIn \in [robot : GraphRobots, t : 0..MaxT, gravity : {None, Some(-2)},
              planar_axis : {None} \cup {Some(a) : a \in PlanarAxes}]
  /\ gOut = NoCall
  /\ SimIdle
  /\ RobotIdle

\* the robots and transition graphs of a multi-phase call: the robot of the
\* call in the odd phases, the chain in the even ones
PhaseRobots(n) == [p \in 1..n |-> IF p % 2 = 1 THEN gIn.robot ELSE ChainRobot]
TransitionGraphs(n) == [p \in 1..n |-> << Factor("Transition", <<PhaseKey(p - 1)>>) >>]

PhaseStepsInputs ==
  UNION {[1..n -> 0..MaxPhaseSteps] : n \in 1..MaxPhases}

CallDynamicsFactors ==
  /\ gOut.fn = ""
  /\ gOut' = Call("dynamicsFactors", "", 0, << >>,
                  dynamicsFactors(gIn.robot, gIn.t, gIn.gravity, gIn.planar_axis))
  /\ UNCHANGED <<gIn, simVars, robotVars>>

CallDynamicsFactorGraph ==
  /\ gOut.fn = ""
  /\ gOut' = Call("dynamicsFactorGraph", "", 0, << >>,
                  dynamicsFactorGraph(gIn.robot, gIn.t, gIn.gravity, gIn.planar_axis))
  /\ UNCHANGED <<gIn, simVars, robotVars>>

\* the linear graph at rest: zero angles and velocities
CallQFactors ==
  /\ gOut.fn = ""
  /\ gOut' = Call("qFactors", "", 0, << >>, Built(qFactors(gIn.robot, gIn.t)))
  /\ UNCHANGED <<gIn, simVars, robotVars>>

CallVFactors ==
  /\ gOut.fn = ""
  /\ gOut' = Call("vFactors", "", 0, << >>, Built(vFactors(gIn.robot, gIn.t)))
  /\ UNCHANGED <<gIn, simVars, robotVars>>

CallAFactors ==
  /\ gOut.fn = ""
  /\ gOut' = Call("aFactors", "", 0, << >>, Built(aFactors(gIn.robot, gIn.t)))
  /\ UNCHANGED <<gIn, simVars, robotVars>>

CallLinearDynamicsGraph ==
  /\ gOut.fn = ""
  /\ gOut' = Call("linearDynamicsGraph", "", 0, << >>,
                  linearDynamicsGraph(gIn.robot, gIn.t, ConstMap(gIn.robot, 0),
                                      forwardKinematics(gIn.robot, ConstMap(gIn.robot, 0),
                                                        ConstMap(gIn.robot, 0)),
                                      gIn.gravity, gIn.planar_axis))
  /\ UNCHANGED <<gIn, simVars, robotVars>>

CallCollocationFactors ==
  /\ gOut.fn = ""
  /\ \E c \in CollocationSchemes :
       gOut' = Call("collocationFactors", c, 0, << >>,
                    collocationFactors(gIn.robot, gIn.t, 1, c))
  /\ UNCHANGED <<gIn, simVars, robotVars>>

CallMultiPhaseCollocationFactors ==
  /\ gOut.fn = ""
  /\ \E c \in CollocationSchemes, phase \in 0..(MaxPhases - 1) :
       gOut' = Call("multiPhaseCollocationFactors", c, 0, <<phase>>,
                    multiPhaseCollocationFactors(gIn.robot, gIn.t, phase, c))
  /\ UNCHANGED <<gIn, simVars, robotVars>>

CallTrajectoryFG ==
  /\ gOut.fn = ""
  /\ \E c \in CollocationSchemes, n \in 0..MaxNumSteps :
       gOut' = Call("trajectoryFG", c, n, << >>,
                    trajectoryFG(gIn.robot, n, 1, c, gIn.gravity, gIn.planar_axis))
  /\ UNCHANGED <<gIn, simVars, robotVars>>

CallMultiPhaseTrajectoryFG ==
  /\ gOut.fn = ""
  /\ \E c \in CollocationSchemes, ps \in PhaseStepsInputs :
       gOut' = Call("multiPhaseTrajectoryFG", c, 0, ps,
                    multiPhaseTrajectoryFG(PhaseRobots(Len(ps)), ps, TransitionGraphs(Len(ps)),
                                           c, gIn.gravity, gIn.planar_axis))
  /\ UNCHANGED <<gIn, simVars, robotVars>>

GraphNext ==
  \/ CallQFactors
  \/ CallVFactors
  \/ CallAFactors
  \/ CallDynamicsFactors
  \/ CallDynamicsFactorGraph
  \/ CallLinearDynamicsGraph
  \/ CallCollocationFactors
  \/ CallMultiPhaseCollocationFactors
  \/ CallTrajectoryFG
  \/ CallMultiPhaseTrajectoryFG

SpecGraph == GraphInit /\ [][GraphNext]_vars

(***************************************************************************)
(* Properties of graph construction (SpecGraph).                           *)
(***************************************************************************)
Incident(robot, i) ==
  {j \in DOMAIN robot.joints : robot.joints[j].parent = i \/ robot.joints[j].child = i}

WrenchFactorTypes ==
  {"WrenchFactor0", "WrenchFactor1", "WrenchFactor2", "WrenchFactor3", "WrenchFactor4"}

\* the positions in a factor's key list that hold wrench keys
WrenchPositions(f) == {k \in DOMAIN f.keys : f.keys[k][1] = "F"}

\* C6: dynamicsFactors throws "Wrench factor not defined" and returns no graph
\* when a non-fixed link has more than 4 joints; otherwise it emits for every
\* non-fixed link exactly one wrench factor, whose wrench keys are exactly the
\* keys (link, joint, t) of the joints at that link, each once, and none for a
\* fixed link.
C6_WrenchFactorPerLink ==
  gOut.fn = "dynamicsFactors" =>
    LET robot == gIn.robot
        g == gOut.out.graph
        ofLink(i) == {f \in DOMAIN g : g[f].type \in WrenchFactorTypes
                                       /\ g[f].keys[2] = TwistAccelKey(i, gIn.t)}
    IN IF \E i \in DOMAIN robot.links :
            ~robot.links[i].fixed /\ Cardinality(Incident(robot, i)) > 4
       THEN gOut.out.threw = "Wrench factor not defined" /\ g = << >>
       ELSE /\ gOut.out.threw = ""
            /\ \A i \in DOMAIN robot.links :
                 IF robot.links[i].fixed THEN ofLink(i) = {}
                 ELSE /\ Cardinality(ofLink(i)) = 1
                      /\ \A f \in ofLink(i) :
                           /\ {g[f].keys[k] : k \in WrenchPositions(g[f])}
                                = {WrenchKey(i, j, gIn.t) : j \in Incident(robot, i)}
                           /\ Cardinality(WrenchPositions(g[f]))
                                = Cardinality(Incident(robot, i))

\* the call failed for a link with five joints
C6_Witness ==
  /\ gOut.fn = "dynamicsFactors" /\ gOut.out.threw = "Wrench factor not defined"
  /\ gIn.robot = HubRobot(5, FALSE)

LinearWrenchKinds == {"Wrench0", "Wrench1", "Wrench2"}

\* C7: linearDynamicsGraph either fails or emits a wrench-balance factor for
\* every non-fixed link.
C7_LinearGraphNeverSilent ==
  gOut.fn = "linearDynamicsGraph" =>
    \/ gOut.out.threw # ""
    \/ \A i \in DOMAIN gIn.robot.links :
         ~gIn.robot.links[i].fixed =>
           \E f \in DOMAIN gOut.out.graph :
             /\ gOut.out.graph[f].kind \in LinearWrenchKinds
             /\ gOut.out.graph[f].keys[1] = TwistAccelKey(i, gIn.t)

\* C8: collocation factors asked for with a scheme other than Euler or
\* Trapezoidal: the call fails and returns no graph, for every robot.
C8_UnimplementedSchemeThrows ==
  (/\ gOut.collocation \notin {"Euler", "Trapezoidal"}
   /\ \/ gOut.fn \in {"collocationFactors", "multiPhaseCollocationFactors"}
      \/ gOut.fn = "trajectoryFG" /\ gOut.num_steps >= 1
      \/ gOut.fn = "multiPhaseTrajectoryFG" /\ SumSeq(gOut.phase_steps) >= 1)
  => (gOut.out.threw # "" /\ gOut.out.graph = << >>)

(***************************************************************************)
(* UniversalRobot.  A shared_ptr is the record it points to, with          *)
(* null |-> TRUE for the null pointer; a link refers to its joints and a   *)
(* joint to its links by name.                                             *)
(***************************************************************************)
NullLink == [null |-> TRUE, name |-> "", parent_joints |-> << >>, child_joints |-> << >>]
NullJointPtr == [null |-> TRUE, name |-> "", parent |-> "", child |-> ""]

LinkBody(name) ==
  [null |-> FALSE, name |-> name, parent_joints |-> << >>, child_joints |-> << >>]

LinkJoint(name, parent, child) ==
  [null |-> FALSE, name |-> name, parent |-> parent, child |-> child]

\* the names of the model, in the order std::map iterates them
LinkNameOrder == <<"a", "b", "c", "d", "ghost">>
JointNameOrder == <<"j1", "j2", "j3">>

\* the values of map m in the order of its keys
RECURSIVE InOrder(_, _)
InOrder(m, order) ==
  IF order = << >> THEN << >>
  ELSE (IF Head(order) \in DOMAIN m THEN << m[Head(order)] >> ELSE << >>)
       \o InOrder(m, Tail(order))

\* std::map::insert: an existing key keeps its value
MapInsert(m, k, v) == IF k \in DOMAIN m THEN m ELSE (k :> v) @@ m

\* std::map::operator[]: a missing key is inserted with a null pointer
MapIndex(m, k, null) == IF k \in DOMAIN m THEN m ELSE (k :> null) @@ m

\* lines 35-67 for one joint.  acc = [links, joints, ub]: the two local maps
\* and whether a null pointer has been dereferenced.  A dereference of null is
\* undefined; where execution goes on, the call through null changes nothing.
addJoint(acc, name, joint) ==
  LET links1 == MapIndex(MapIndex(acc.links, joint.parent_link_name, NullLink),
                         joint.child_link_name, NullLink)
      parent == links1[joint.parent_link_name]
      child == links1[joint.child_link_name]
      links2 == IF parent.null THEN links1
                ELSE [links1 EXCEPT ![joint.parent_link_name].child_joints = Append(@, name)]
      links3 == IF child.null THEN links2
                ELSE [links2 EXCEPT ![joint.child_link_name].parent_joints = Append(@, name)]
  IN [links |-> links3,
      joints |-> MapInsert(acc.joints, name,
                           LinkJoint(name, IF parent.null THEN "" ELSE parent.name,
                                     IF child.null THEN "" ELSE child.name)),
      ub |-> acc.ub \/ parent.null \/ child.null]

RECURSIVE addJoints(_, _, _)
addJoints(acc, joints_, order) ==
  IF order = << >> THEN acc
  ELSE addJoints(IF Head(order) \in DOMAIN joints_
                 THEN addJoint(acc, Head(order), joints_[Head(order)]) ELSE acc,
                 joints_, Tail(order))

\* [ub, links, joints]: whether undefined behaviour was met on the way, and the
\* pair of vectors returned if execution went on to the return
extract_structure_from_urdf(u) ==
  LET acc == addJoints([links |-> [n \in u.links_ |-> LinkBody(n)], joints |-> EmptyMap,
                        ub |-> FALSE],
                       u.joints_, JointNameOrder)
  IN [ub |-> acc.ub,
      links |-> InOrder(acc.links, LinkNameOrder),
      joints |-> InOrder(acc.joints, JointNameOrder)]

RECURSIVE IndexByName(_, _)
IndexByName(m, entities) ==
  IF entities = << >> THEN m
  ELSE IndexByName(MapInsert(m, Head(entities).name, Head(entities)), Tail(entities))

\* lines 81-95
UniversalRobot(links, joints, base_name) ==
  [state |-> "constructed",
   link_bodies_ |-> links,
   link_joints_ |-> joints,
   base_name_ |-> base_name,
   name_to_link_body_ |-> IndexByName(EmptyMap, links),
   name_to_link_joint_ |-> IndexByName(EmptyMap, joints)]

\* [robot, value]: the robot after the call and the pointer returned
getLinkByName(r, name) ==
  [robot |-> [r EXCEPT !.name_to_link_body_ = MapIndex(@, name, NullLink)],
   threw |-> "",
   value |-> MapIndex(r.name_to_link_body_, name, NullLink)[name]]

getJointByName(r, name) ==
  [robot |-> [r EXCEPT !.name_to_link_joint_ = MapIndex(@, name, NullJointPtr)],
   threw |-> "",
   value |-> MapIndex(r.name_to_link_joint_, name, NullJointPtr)[name]]

(***************************************************************************)
(* The robot as a system: a description is drawn at the start, the robot   *)
(* is assembled from it, then queried by name.                             *)
(***************************************************************************)
DescribedLinks == {"a", "b"}
ReferencedLinks == {"a", "b", "ghost"}
DescribedJoints == {"j1", "j2"}
QueriedJoints == {"j1", "j2", "j9"}

UrdfInputs ==
  { [links_ |-> ls, joints_ |-> js] :
      ls \in (SUBSET DescribedLinks) \ {{}},
      js \in UNION { [jn -> [parent_link_name : ReferencedLinks,
                             child_link_name : ReferencedLinks]]
                     : jn \in SUBSET DescribedJoints } }

\* the first entity of a vector that has the name, the null pointer if none
FindByName(entities, name, null) ==
  IF \E k \in DOMAIN entities : entities[k].name = name
  THEN entities[CHOOSE k \in DOMAIN entities :
                  /\ entities[k].name = name
                  /\ \A m \in DOMAIN entities : entities[m].name = name => k <= m]
  ELSE null

\* LinkJoint::pTc along one axis: a unit offset advanced by the joint angle;
\* every centre of mass is at its link's origin
pTc(link_joint, q) == 1 + q

\* lines 184-193.  [robot, ub, value]: the robot after the call, whether a
\* null pointer was dereferenced, the pose returned if execution went on
cTpCOM(r, name, q) ==
  LET index == MapIndex(r.name_to_link_joint_, name, NullJointPtr)
      link_joint == index[name]
      ub == link_joint.null \/ link_joint.parent = "" \/ link_joint.child = ""
  IN [robot |-> [r EXCEPT !.name_to_link_joint_ = index],
      ub |-> ub,
      value |-> IF ub THEN 0 ELSE 0 - pTc(link_joint, q)]

\* the loop body with the child joints put in at the back: depth first
visitJointChildrenAtBack(r, q_map, acc) ==
  LET name == acc.to_visit[Len(acc.to_visit)]
      rest == SubSeq(acc.to_visit, 1, Len(acc.to_visit) - 1)
      curr_joint == FindByName(r.link_joints_, name, NullJointPtr)
      c_link == FindByName(r.link_bodies_, curr_joint.child, NullLink)
      q == IF name \in DOMAIN q_map THEN q_map[name] ELSE 0
      frames == MapIndex(acc.com_frames, curr_joint.parent, 0)
  IN IF \E k \in DOMAIN acc.visited : acc.visited[k] = name
     THEN [acc EXCEPT !.to_visit = rest]
     ELSE IF curr_joint.null \/ curr_joint.parent = "" \/ c_link.null
     THEN [acc EXCEPT !.to_visit = rest, !.visited = Append(@, name), !.ub = TRUE]
     ELSE [to_visit |-> rest \o c_link.child_joints,
           visited |-> Append(acc.visited, name),
           com_frames |-> MapInsert(frames, c_link.name,
                                    frames[curr_joint.parent] + cTpCOM(r, name, q).value),
           ub |-> acc.ub]

\* lines 266-292: one turn of the loop of COMFrames.  acc = [to_visit,
\* visited, com_frames, ub]; the joint at the back of to_visit is taken, the
\* child joints of its child link are put in at the front.
visitJoint(r, q_map, acc) ==
  LET name == acc.to_visit[Len(acc.to_visit)]
      rest == SubSeq(acc.to_visit, 1, Len(acc.to_visit) - 1)
      curr_joint == FindByName(r.link_joints_, name, NullJointPtr)
      c_link == FindByName(r.link_bodies_, curr_joint.child, NullLink)
      q == IF name \in DOMAIN q_map THEN q_map[name] ELSE 0
      frames == MapIndex(acc.com_frames, curr_joint.parent, 0)
  IN IF \E k \in DOMAIN acc.visited : acc.visited[k] = name
     THEN [acc EXCEPT !.to_visit = rest]
     ELSE IF curr_joint.null \/ curr_joint.parent = "" \/ c_link.null
     THEN [acc EXCEPT !.to_visit = rest, !.visited = Append(@, name), !.ub = TRUE]
     ELSE [to_visit |-> c_link.child_joints \o rest,
           visited |-> Append(acc.visited, name),
           com_frames |-> MapInsert(frames, c_link.name,
                                    frames[curr_joint.parent] + cTpCOM(r, name, q).value),
           ub |-> acc.ub]

\* lines 264-293: the loop of COMFrames
RECURSIVE visitJoints(_, _, _)
visitJoints(r, q_map, acc) ==
  IF acc.to_visit = << >> THEN acc ELSE visitJoints(r, q_map, visitJoint(r, q_map, acc))

\* lines 254-262: the base frame and the child joints of the base link
framesStart(got, base_name, ub) ==
  [to_visit |-> IF got.value.null THEN << >> ELSE got.value.child_joints,
   visited |-> << >>,
   com_frames |-> (base_name :> 0),
   ub |-> ub \/ got.value.null]

\* the loop started from the base link found by name
visitFromBase(got, q_map, base_name, ub) ==
  visitJoints(got.robot, q_map, framesStart(got, base_name, ub))

framesResult(got, acc) ==
  [robot |-> got.robot, ub |-> acc.ub, value |-> acc.com_frames, visited |-> acc.visited]

\* lines 248-296.  boost::optional::get() of an argument that holds no map
\* (line 255) is undefined; where execution goes on, the map is empty.
COMFramesFrom(got, joint_name_to_angle, base_name) ==
  framesResult(got, visitFromBase(got,
                                  IF joint_name_to_angle = None THEN EmptyMap
                                  ELSE joint_name_to_angle[1],
                                  base_name, joint_name_to_angle = None))

COMFrames(r, joint_name_to_angle) ==
  COMFramesFrom(getLinkByName(r, r.base_name_), joint_name_to_angle, r.base_name_)

(***************************************************************************)
(* DynamicsGraphBuilder::zeroValues and zeroValuesTrajectory.              *)
(* gtsam::Values::insert throws ValuesKeyAlreadyExists for a key that is   *)
(* already in the container.                                               *)
(***************************************************************************)
HasDuplicates(seq) == \E a, b \in DOMAIN seq : a < b /\ seq[a] = seq[b]

insertZeros(keys) ==
  IF HasDuplicates(keys) THEN [threw |-> "ValuesKeyAlreadyExists", values |-> EmptyMap]
  ELSE [threw |-> "", values |-> [k \in Range(keys) |-> 0]]

\* the keys zeroValues inserts, in the order it inserts them
zeroKeys(robot, t) ==
  Concat([i \in DOMAIN robot.links |->
            <<PoseKey(i, t), TwistKey(i, t), TwistAccelKey(i, t)>>])
  \o Concat([j \in DOMAIN robot.joints |->
               <<WrenchKey(robot.joints[j].parent, j, t), WrenchKey(robot.joints[j].child, j, t),
                 TorqueKey(j, t), JointAngleKey(j, t), JointVelKey(j, t),
                 JointAccelKey(j, t)>>])

zeroValues(robot, t) == insertZeros(zeroKeys(robot, t))

zeroValuesTrajectory(robot, num_steps, num_phases) ==
  insertZeros(Concat([k \in 1..(num_steps + 1) |-> zeroKeys(robot, k - 1)])
              \o (IF num_phases > 0 THEN [k \in 1..(num_phases + 1) |-> PhaseKey(k - 1)]
                  ELSE << >>))

\* lines 107-109
numLinks(r) == Len(r.link_bodies_)
numJoints(r) == Len(r.link_joints_)

\* the sequences of length lo..hi over set S
SeqsOf(S, lo, hi) == UNION { [1..n -> S] : n \in lo..hi }

\* a pair of vectors handed to the constructor directly, with an empty
\* description: one or two links, up to two joints from the first link to the
\* last, names drawn freely
PairInputs ==
  { [links_ |-> {}, joints_ |-> EmptyMap,
     first |-> [i \in DOMAIN ls |->
                 [LinkBody(ls[i]) EXCEPT !.child_joints = IF i = 1 THEN js ELSE << >>,
                                         !.parent_joints = IF i = Len(ls) THEN js ELSE << >>]],
     second |-> [j \in DOMAIN js |-> LinkJoint(js[j], ls[1], ls[Len(ls)])]] :
      ls \in SeqsOf(DescribedLinks, 1, 2), js \in SeqsOf(DescribedJoints, 0, 2) }

NoRobot ==
  [state |-> "none", link_bodies_ |-> << >>, link_joints_ |-> << >>, base_name_ |-> "",
   name_to_link_body_ |-> EmptyMap, name_to_link_joint_ |-> EmptyMap]

\* the process ended in the undefined behaviour: there is no robot
CrashedRobot == [NoRobot EXCEPT !.state = "crashed"]

Ret(op, name, threw, value) ==
  [op |-> op, name |-> name, threw |-> threw,
   value |-> [null |-> value.null, name |-> value.name]]

RobotInit ==
  /\ urdf \in UrdfInputs \cup PairInputs
  /\ rob = NoRobot
  /\ robRet = Ret("", "", "", NullLink)
  /\ SimIdle
  /\ GraphIdle

Assembled(x) ==
  /\ rob' = UniversalRobot(x.links, x.joints, "a")
  /\ robRet' = Ret("UniversalRobot", "", "", NullLink)

\* extract_structure_from_urdf returned and the robot is constructed from it
Assemble ==
  /\ rob.state = "none"
  /\ Assembled(extract_structure_from_urdf(urdf))
  /\ UNCHANGED <<urdf, simVars, graphVars>>

\* extract_structure_from_urdf dereferenced a null pointer and the process ended
AssembleCrash ==
  /\ rob.state = "none"
  /\ extract_structure_from_urdf(urdf).ub
  /\ rob' = CrashedRobot
  /\ robRet' = Ret("UniversalRobot", "", "SIGSEGV", NullLink)
  /\ UNCHANGED <<urdf, simVars, graphVars>>

\* the constructor called with a pair of vectors made by the caller
Construct ==
  /\ rob.state = "none"
  /\ "first" \in DOMAIN urdf
  /\ rob' = UniversalRobot(urdf.first, urdf.second, "a")
  /\ robRet' = Ret("UniversalRobot", "", "", NullLink)
  /\ UNCHANGED <<urdf, simVars, graphVars>>

\* no link or joint of the robot is null or refers to a link the robot lacks
WellFormed(r) ==
  /\ \A i \in DOMAIN r.link_bodies_ : ~r.link_bodies_[i].null
  /\ \A j \in DOMAIN r.link_joints_ :
       /\ ~FindByName(r.link_bodies_, r.link_joints_[j].parent, NullLink).null
       /\ ~FindByName(r.link_bodies_, r.link_joints_[j].child, NullLink).null

\* position of the first link with the name
LinkID(r, name) ==
  CHOOSE k \in DOMAIN r.link_bodies_ :
    /\ r.link_bodies_[k].name = name
    /\ \A m \in DOMAIN r.link_bodies_ : r.link_bodies_[m].name = name => k <= m

\* the robot as the graph builder reads it through links() and joints():
\* ids are positions, the base link is the fixed one
dynamicsView(r) ==
  [links |-> [i \in DOMAIN r.link_bodies_ |->
                [name |-> LinkName(i), fixed |-> r.link_bodies_[i].name = r.base_name_,
                 mass |-> 1]],
   joints |-> [j \in DOMAIN r.link_joints_ |->
                 [name |-> JointName(j), parent |-> LinkID(r, r.link_joints_[j].parent),
                  child |-> LinkID(r, r.link_joints_[j].child)]]]

Got(op, name, r) ==
  /\ rob' = r.robot
  /\ robRet' = Ret(op, name, r.threw, r.value)

GetLinkByName ==
  /\ rob.state = "constructed"
  /\ \E name \in ReferencedLinks : Got("getLinkByName", name, getLinkByName(rob, name))
  /\ UNCHANGED <<urdf, simVars, graphVars>>

GetJointByName ==
  /\ rob.state = "constructed"
  /\ \E name \in QueriedJoints : Got("getJointByName", name, getJointByName(rob, name))
  /\ UNCHANGED <<urdf, simVars, graphVars>>

\* a call that dereferenced a null pointer either ends the process or goes on
Outcomes(ub) == IF ub THEN {"returned", "crashed"} ELSE {"returned"}

Queried(op, name, r, outcome) ==
  IF outcome = "crashed"
  THEN rob' = CrashedRobot /\ robRet' = Ret(op, name, "SIGSEGV", NullLink)
  ELSE /\ rob' = r.robot
       /\ robRet' = [op |-> op, name |-> name, threw |-> "", value |-> r.value, ub |-> r.ub]

CallCTpCOM ==
  /\ rob.state = "constructed"
  /\ \E name \in QueriedJoints, q \in {0, 1} :
       \E outcome \in Outcomes(cTpCOM(rob, name, q).ub) :
         Queried("cTpCOM", name, cTpCOM(rob, name, q), outcome)
  /\ UNCHANGED <<urdf, simVars, graphVars>>

CallCOMFrames ==
  /\ rob.state = "constructed"
  /\ \E arg \in {None, Some(EmptyMap), Some([n \in DescribedJoints |-> 1])} :
       \E outcome \in Outcomes(COMFrames(rob, arg).ub) :
         Queried("COMFrames", "", COMFrames(rob, arg), outcome)
  /\ UNCHANGED <<urdf, simVars, graphVars>>

\* the graph builder takes the robot by const reference
BuilderCalled(op, out) ==
  /\ rob' = rob
  /\ robRet' = [Ret(op, "", out.threw, NullLink) EXCEPT !.value = out]

CallZeroValues ==
  /\ rob.state = "constructed" /\ WellFormed(rob)
  /\ \E t \in 0..MaxT : BuilderCalled("zeroValues", zeroValues(dynamicsView(rob), t))
  /\ UNCHANGED <<urdf, simVars, graphVars>>

CallGraphBuilder ==
  /\ rob.state = "constructed" /\ WellFormed(rob)
  /\ \E t \in 0..MaxT :
       BuilderCalled("dynamicsFactorGraph", dynamicsFactorGraph(dynamicsView(rob), t, None, None))
  /\ UNCHANGED <<urdf, simVars, graphVars>>

RobotNext ==
  \/ CallCTpCOM
  \/ CallCOMFrames
  \/ CallZeroValues
  \/ CallGraphBuilder
  \/ Assemble
  \/ AssembleCrash
  \/ Construct
  \/ GetLinkByName
  \/ GetJointByName

SpecRobot == RobotInit /\ [][RobotNext]_vars

(***************************************************************************)
(* Claims about the robot                                                  *)
(***************************************************************************)
\* the names the constructed robot was built with
KnownLinks == { rob.link_bodies_[i].name : i \in DOMAIN rob.link_bodies_ }
KnownJoints == { rob.link_joints_[i].name : i \in DOMAIN rob.link_joints_ }

\* the last call was a lookup of a name the robot did not hold before the call
UnknownLookup ==
  \/ robRet.op = "getLinkByName" /\ robRet.name \notin KnownLinks
  \/ robRet.op = "getJointByName" /\ robRet.name \notin KnownJoints

\* C9: getLinkByName / getJointByName with a name that is not in the robot
\* fails with a not-found condition and never returns a null entity.
C9_UnknownNameNotFound ==
  UnknownLookup => robRet.threw = "not found" /\ ~robRet.value.null

\* some joint of the description names a link that is not described
Dangling ==
  \E jn \in DOMAIN urdf.joints_ :
    \/ urdf.joints_[jn].parent_link_name \notin urdf.links_
    \/ urdf.joints_[jn].child_link_name \notin urdf.links_

\* C10: assembling a robot from a description with a dangling joint reference
\* fails with a model-construction error: no robot and no partial link or
\* joint set is produced, and no link entry exists for the unknown name.
C10_DanglingReferenceFails ==
  (Dangling /\ robRet.op = "UniversalRobot") =>
     /\ robRet.threw = "model construction error"
     /\ rob.state = "none"
     /\ rob.link_bodies_ = << >>
     /\ rob.link_joints_ = << >>
     /\ DOMAIN rob.name_to_link_body_ \subseteq urdf.links_

\* C11: a robot built from links or joints of which two share a name is not
\* constructed: in every robot just constructed from a pair of vectors the
\* number of links (joints) is the number of names in the by-name link
\* (joint) index.
C11_DuplicateNamesFail ==
  ("first" \in DOMAIN urdf /\ rob.state = "constructed" /\ robRet.op = "UniversalRobot") =>
     /\ numLinks(rob) = Cardinality(DOMAIN rob.name_to_link_body_)
     /\ numJoints(rob) = Cardinality(DOMAIN rob.name_to_link_joint_)

\* the step is a call on the constructed robot that returned without having
\* dereferenced a null pointer
DefinedCall ==
  /\ rob.state = "constructed" /\ rob'.state = "constructed"
  /\ "ub" \in DOMAIN robRet' => ~robRet'.ub

\* C12: once constructed the robot is read-only: no query and no
\* graph-building call changes its link set, joint set or by-name indexes.
C12_RobotReadOnly == [][DefinedCall => rob' = rob]_vars

\* the same without the two lookups by name
ReadOnlyButLookups ==
  [][(DefinedCall /\ robRet'.op \notin {"getLinkByName", "getJointByName"})
       => rob' = rob]_vars

(***************************************************************************)
(* Properties of graph construction, continued (SpecGraph).                *)
(***************************************************************************)
\* graph g holds one factor of type prior on linkKeys[i] for every fixed link
\* i and none for another link, one factor of type jointType per joint j, on
\* exactly the keys jointKeys[j], and nothing else
PriorsAndJointFactors(robot, g, prior, linkKeys, jointType, jointKeys) ==
  /\ \A i \in DOMAIN robot.links :
       Cardinality({f \in DOMAIN g : g[f] = Factor(prior, <<linkKeys[i]>>)})
         = IF robot.links[i].fixed THEN 1 ELSE 0
  /\ \A j \in DOMAIN robot.joints :
       /\ Cardinality({f \in DOMAIN g : g[f].type = jointType
                                        /\ JointAngleKey(j, gIn.t) \in Range(g[f].keys)}) = 1
       /\ \E f \in DOMAIN g : g[f].type = jointType /\ Range(g[f].keys) = jointKeys[j]
  /\ Len(g) = Cardinality({i \in DOMAIN robot.links : robot.links[i].fixed})
                + Len(robot.joints)

\* C13: at timestep t qFactors, vFactors and aFactors each emit one factor per
\* joint, on the pose / twist / twist-acceleration keys of the joint's parent
\* and child links and the joint's angle (velocity, acceleration) keys at t
\* (the acceleration factor also on the child's twist), plus one prior per
\* fixed link and none for a non-fixed link.
C13_KinematicFactors ==
  LET robot == gIn.robot
      t == gIn.t
      g == gOut.out.graph
      P(j) == robot.joints[j].parent
      C(j) == robot.joints[j].child
  IN /\ gOut.fn = "qFactors" =>
          PriorsAndJointFactors(robot, g, "PriorPose",
            [i \in DOMAIN robot.links |-> PoseKey(i, t)], "PoseFactor",
            [j \in DOMAIN robot.joints |->
               {PoseKey(P(j), t), PoseKey(C(j), t), JointAngleKey(j, t)}])
     /\ gOut.fn = "vFactors" =>
          PriorsAndJointFactors(robot, g, "PriorTwist",
            [i \in DOMAIN robot.links |-> TwistKey(i, t)], "TwistFactor",
            [j \in DOMAIN robot.joints |->
               {TwistKey(P(j), t), TwistKey(C(j), t), JointAngleKey(j, t),
                JointVelKey(j, t)}])
     /\ gOut.fn = "aFactors" =>
          PriorsAndJointFactors(robot, g, "PriorTwistAccel",
            [i \in DOMAIN robot.links |-> TwistAccelKey(i, t)], "TwistAccelFactor",
            [j \in DOMAIN robot.joints |->
               {TwistAccelKey(P(j), t), TwistAccelKey(C(j), t), TwistKey(C(j), t),
                JointAngleKey(j, t), JointVelKey(j, t), JointAccelKey(j, t)}])

\* aFactors was called for the robot with a fixed link and a loop
C13_Witness == gOut.fn = "aFactors" /\ gIn.robot = LoopRobot /\ Len(gOut.out.graph) = 4

\* the factors of graph g of the given type that have the key
FactorsOn(g, type, key) == {f \in DOMAIN g : g[f].type = type /\ key \in Range(g[f].keys)}

\* C14: in a one-step dynamics graph every joint, a loop-closing one
\* included, has exactly one pose, twist, twist-acceleration,
\* wrench-equivalence and torque factor, and every wrench key (i, j, t) is in
\* at most one wrench-balance factor, that of link i.
C14_JointFactorsOnce ==
  (gOut.fn = "dynamicsFactorGraph" /\ gOut.out.threw = "") =>
    LET robot == gIn.robot
        t == gIn.t
        g == gOut.out.graph
        balances(key) == {f \in DOMAIN g : g[f].type \in WrenchFactorTypes
                                           /\ key \in Range(g[f].keys)}
    IN /\ \A j \in DOMAIN robot.joints :
            /\ \A type \in {"PoseFactor", "TwistFactor", "TwistAccelFactor",
                            "WrenchEquivalenceFactor"} :
                 Cardinality(FactorsOn(g, type, JointAngleKey(j, t))) = 1
            /\ Cardinality(FactorsOn(g, "TorqueFactor", TorqueKey(j, t))) = 1
       /\ \A i \in DOMAIN robot.links, j \in DOMAIN robot.joints :
            /\ Cardinality(balances(WrenchKey(i, j, t))) <= 1
            /\ \A f \in balances(WrenchKey(i, j, t)) : g[f].keys[2] = TwistAccelKey(i, t)

\* the one-step graph of the robot whose third joint closes a loop was built
C14_Witness ==
  /\ gOut.fn = "dynamicsFactorGraph" /\ gOut.out.threw = "" /\ gIn.robot = LoopRobot
  /\ Cardinality(FactorsOn(gOut.out.graph, "TorqueFactor", TorqueKey(3, gIn.t))) = 1

CollocationTypes == {"EulerQ", "EulerV", "TrapezoidalQ", "TrapezoidalV"}

\* the factors of g that are not collocation factors and are on timestep t
DynamicsAt(g, t) ==
  LET AtT(f) == f.type \notin CollocationTypes /\ f.type # "Transition" /\ KeyTime(f.keys[1]) = t
  IN SelectSeq(g, AtT)

\* the collocation factors of g between t and t + 1 that have the key: the
\* first timed key of a collocation factor is a key at its earlier timestep
CollocationAt(g, types, key, t) ==
  {f \in DOMAIN g : /\ g[f].type \in types
                    /\ key \in Range(g[f].keys)
                    /\ \A k \in DOMAIN g[f].keys :
                         g[f].keys[k][1] # "phase" => KeyTime(g[f].keys[k]) \in {t, t + 1}}

\* C15: trajectoryFG(robot, N, dt, scheme) holds the one-step dynamics graph
\* of every t in 0..N and, for every t in 0..N-1 and every joint, exactly two
\* collocation factors, one on the angle and one on the velocity, on keys of
\* that joint's angle, velocity and acceleration at t and t+1 only; there is
\* no collocation factor from t = N and no other factor.
C15_TrajectoryFG ==
  (gOut.fn = "trajectoryFG" /\ gOut.out.threw = "") =>
    LET robot == gIn.robot
        N == gOut.num_steps
        g == gOut.out.graph
        colloc == {f \in DOMAIN g : g[f].type \in CollocationTypes}
        own(j) == {JointAngleKey(j, t) : t \in 0..(N + 1)}
                    \cup {JointVelKey(j, t) : t \in 0..(N + 1)}
                    \cup {JointAccelKey(j, t) : t \in 0..(N + 1)}
    IN /\ \A t \in 0..N :
            DynamicsAt(g, t) = dynamicsFactorGraph(robot, t, gIn.gravity, gIn.planar_axis).graph
       /\ \A t \in 0..(N - 1), j \in DOMAIN robot.joints :
            /\ Cardinality(CollocationAt(g, {"EulerQ", "TrapezoidalQ"},
                                         JointAngleKey(j, t), t)) = 1
            /\ Cardinality(CollocationAt(g, {"EulerV", "TrapezoidalV"},
                                         JointAccelKey(j, t), t)) = 1
       /\ \A f \in colloc :
            \E j \in DOMAIN robot.joints, t \in 0..(N - 1) :
              /\ Range(g[f].keys) \subseteq own(j)
              /\ \A k \in DOMAIN g[f].keys : KeyTime(g[f].keys[k]) \in {t, t + 1}
       /\ Cardinality(colloc) = 2 * Len(robot.joints) * N
       /\ Len(g) = SumSeq([k \in 1..(N + 1) |-> Len(DynamicsAt(g, k - 1))]) + Cardinality(colloc)

\* a two-step trajectory of the three-joint loop was built
C15_Witness ==
  /\ gOut.fn = "trajectoryFG" /\ gOut.out.threw = "" /\ gOut.num_steps = 2
  /\ gOut.collocation = "Trapezoidal" /\ gIn.robot = LoopRobot
  /\ Cardinality({f \in DOMAIN gOut.out.graph : gOut.out.graph[f].type \in CollocationTypes}) = 12

\* the last timestep of phase p (from 1) when every phase has a step
PhaseEnd(phase_steps, p) == SumSeq(SubSeq(phase_steps, 1, p))

\* the phase (from 1) timestep t belongs to: the first whose end is not before t
PhaseOf(phase_steps, t) ==
  CHOOSE p \in DOMAIN phase_steps :
    /\ t <= PhaseEnd(phase_steps, p)
    /\ \A q \in DOMAIN phase_steps : t <= PhaseEnd(phase_steps, q) => p <= q

\* C16: multiPhaseTrajectoryFG with P phases of at least one step each covers
\* the timesteps 0..S, S the sum of phase_steps: a timestep that ends a phase
\* other than the last has no dynamics factor and that phase's transition
\* graph is in the graph once; every other timestep, S included, has the
\* one-step dynamics graph of the robot of its phase; nothing lies beyond S.
C16_MultiPhaseCoverage ==
  (/\ gOut.fn = "multiPhaseTrajectoryFG" /\ gOut.out.threw = ""
   /\ \A p \in DOMAIN gOut.phase_steps : gOut.phase_steps[p] >= 1) =>
    LET ps == gOut.phase_steps
        P == Len(ps)
        S == SumSeq(ps)
        g == gOut.out.graph
        robots == PhaseRobots(P)
        boundary(t) == \E p \in 1..(P - 1) : t = PhaseEnd(ps, p)
    IN /\ \A t \in 0..S :
            DynamicsAt(g, t) =
              IF boundary(t) THEN << >>
              ELSE dynamicsFactorGraph(robots[PhaseOf(ps, t)], t, gIn.gravity,
                                       gIn.planar_axis).graph
       /\ \A p \in 1..(P - 1) :
            Cardinality({f \in DOMAIN g : g[f] \in Range(TransitionGraphs(P)[p])}) = 1
       /\ Cardinality({f \in DOMAIN g : g[f].type = "Transition"}) = P - 1
       /\ Len(g) = SumSeq([k \in 1..(S + 1) |-> Len(DynamicsAt(g, k - 1))]) + (P - 1)
                     + Cardinality({f \in DOMAIN g : g[f].type \in CollocationTypes})

\* two phases of two steps each were assembled
C16_Witness ==
  /\ gOut.fn = "multiPhaseTrajectoryFG" /\ gOut.out.threw = ""
  /\ gOut.phase_steps = <<2, 2>> /\ gIn.robot = LoopRobot
  /\ DynamicsAt(gOut.out.graph, 2) = << >> /\ DynamicsAt(gOut.out.graph, 4) # << >>

(***************************************************************************)
(* Objective builders (add_link_objectives, add_joint_objectives).  The    *)
(* builder holds the target graph and the id and timestep its keys are     *)
(* made of; each objective call returns the builder, so calls chain.       *)
(***************************************************************************)
LinkObjectives == {"pose", "twist", "twistAccel"}
JointObjectives == {"angle", "velocity", "acceleration"}
NoiseModels == {"given", "default"}

ObjectiveKey(objective, id, k) ==
  IF objective = "pose" THEN PoseKey(id, k)
  ELSE IF objective = "twist" THEN TwistKey(id, k)
  ELSE IF objective = "twistAccel" THEN TwistAccelKey(id, k)
  ELSE IF objective = "angle" THEN JointAngleKey(id, k)
  ELSE IF objective = "velocity" THEN JointVelKey(id, k)
  ELSE JointAccelKey(id, k)

\* an objective call that adds nothing when no noise model is given
addObjectiveGivenOnly(graph, objective, id, k, noise) ==
  IF noise = "default" THEN graph
  ELSE Append(graph, [type |-> "PriorFactor", keys |-> <<ObjectiveKey(objective, id, k)>>,
                      noise |-> noise])

\* one objective call: a prior on the key of the objective is added to the graph
addObjective(graph, objective, id, k, noise) ==
  Append(graph, [type |-> "PriorFactor", keys |-> <<ObjectiveKey(objective, id, k)>>,
                 noise |-> noise])

\* a chain of calls on one builder, each with the noise model of noises
RECURSIVE chain(_, _, _, _, _)
chain(graph, objectives, id, k, noises) ==
  IF objectives = << >> THEN graph
  ELSE chain(addObjective(graph, Head(objectives), id, k, Head(noises)),
             Tail(objectives), id, k, Tail(noises))

\* the graph sizes testObjectiveFactors.cpp expects, with its id and k
TestPoseAndTwist ==
  LET g1 == chain(<< >>, <<"pose">>, 5, 777, <<"given">>)
  IN Len(g1) = 1 /\ Len(chain(g1, <<"pose", "twist">>, 5, 777, <<"given", "given">>)) = 3

TestTwistWithDerivatives ==
  Len(chain(<< >>, <<"twist", "twistAccel">>, 5, 777, <<"given", "given">>)) = 2

TestJointAngleWithDerivatives ==
  LET g1 == chain(<< >>, <<"angle">>, 5, 777, <<"given">>)
      g2 == chain(g1, <<"velocity", "acceleration">>, 5, 777, <<"given", "given">>)
  IN /\ Len(g1) = 1
     /\ Len(g2) = 3
     /\ Len(chain(g2, <<"angle", "velocity", "acceleration">>, 5, 777,
                  <<"given", "given", "given">>)) = 6

TestOptionalNoiseModels ==
  Len(chain(chain(<< >>, <<"velocity", "acceleration">>, 5, 777, <<"default", "default">>),
            <<"acceleration", "angle", "velocity">>, 5, 777,
            <<"default", "default", "default">>)) = 5

(***************************************************************************)
(* The objective builders as a system: gIn holds the id and the timestep,  *)
(* gOut the target graph after the last call.                              *)
(***************************************************************************)
ObjectivesInit ==
  /\ gIn \in [id : {1, 5}, k : {0, 777}]
  /\ gOut = NoCall
  /\ SimIdle
  /\ RobotIdle

Objective(objective, noise) ==
  gOut' = Call(objective, noise, 0, << >>,
               Built(addObjective(gOut.out.graph, objective, gIn.id, gIn.k, noise)))

AddLinkObjective ==
  /\ Len(gOut.out.graph) < MaxObjectives
  /\ \E objective \in LinkObjectives, noise \in NoiseModels : Objective(objective, noise)
  /\ UNCHANGED <<gIn, simVars, robotVars>>

AddJointObjective ==
  /\ Len(gOut.out.graph) < MaxObjectives
  /\ \E objective \in JointObjectives, noise \in NoiseModels : Objective(objective, noise)
  /\ UNCHANGED <<gIn, simVars, robotVars>>

ObjectivesNext == AddLinkObjective \/ AddJointObjective

SpecObjectives == ObjectivesInit /\ [][ObjectivesNext]_vars

\* C17: each objective call (pose, twist, twistAccel, angle, velocity,
\* acceleration), with or without a noise model, adds exactly one factor to
\* the target graph and leaves the factors already there as they were, so N
\* calls add N factors; the sizes the tests expect follow.
C17_OneFactorPerObjective ==
  /\ [](/\ TestPoseAndTwist /\ TestTwistWithDerivatives
        /\ TestJointAngleWithDerivatives /\ TestOptionalNoiseModels)
  /\ [][/\ Len(gOut'.out.graph) = Len(gOut.out.graph) + 1
        /\ SubSeq(gOut'.out.graph, 1, Len(gOut.out.graph)) = gOut.out.graph]_vars

\* three objectives were added, the last without a noise model
C17_Witness ==
  /\ gOut.fn = "acceleration" /\ gOut.collocation = "default"
  /\ Len(gOut.out.graph) = 3 /\ gOut.out.graph[1].noise = "given"

(***************************************************************************)
(* Initial values of a multi-phase trajectory as a system: one robot in    *)
(* every phase, the transition graph of a phase is the one-step dynamics   *)
(* graph at the timestep that ends it, and zeroValuesTrajectory is asked   *)
(* for the values of the same number of steps.                             *)
(***************************************************************************)
SameRobot(robot, n) == [p \in 1..n |-> robot]

BoundaryDynamics(robot, phase_steps, gravity, planar_axis) ==
  [p \in DOMAIN phase_steps |->
     dynamicsFactorGraph(robot, SumSeq(SubSeq(phase_steps, 1, p)), gravity, planar_axis).graph]

ValuesInit ==
  /\ gIn \in [robot : GraphRobots, t : 0..MaxT, gravity : {None, Some(-2)},
              planar_axis : {None, Some(<<1, 0, 0>>)}]
  /\ gOut = NoCall
  /\ SimIdle
  /\ RobotIdle

CallZeroValuesTrajectory ==
  /\ gOut.fn = ""
  /\ \E c \in CollocationSchemes, ps \in PhaseStepsInputs, num_phases \in 0..(MaxPhases + 1) :
       gOut' = [fn |-> "zeroValuesTrajectory", collocation |-> c, num_steps |-> SumSeq(ps),
                phase_steps |-> ps, num_phases |-> num_phases,
                out |-> multiPhaseTrajectoryFG(SameRobot(gIn.robot, Len(ps)), ps,
                          BoundaryDynamics(gIn.robot, ps, gIn.gravity, gIn.planar_axis),
                          c, gIn.gravity, gIn.planar_axis),
                zero_values |-> zeroValuesTrajectory(gIn.robot, SumSeq(ps), num_phases)]
  /\ UNCHANGED <<gIn, simVars, robotVars>>

ValuesNext == CallZeroValuesTrajectory

SpecValues == ValuesInit /\ [][ValuesNext]_vars

\* a multi-phase graph was assembled for a robot with a joint, every phase
\* with a step, and the values were made without a throw
ValuesMade ==
  /\ gOut.fn = "zeroValuesTrajectory"
  /\ gOut.out.threw = "" /\ gOut.zero_values.threw = ""
  /\ gIn.robot.joints # << >>
  /\ \A p \in DOMAIN gOut.phase_steps : gOut.phase_steps[p] >= 1

\* C18: the initial values made for a multi-phase trajectory of P phases
\* (num_phases = P) have a value for exactly the variable keys of the
\* assembled multi-phase graph: no key of the graph lacks a value, no value
\* is for a key the graph does not use, one phase value per phase.
C18_InitialValuesMatchGraph ==
  (ValuesMade /\ gOut.num_phases = Len(gOut.phase_steps)) =>
    /\ DOMAIN gOut.zero_values.values = GraphKeys(gOut.out.graph)
    /\ Cardinality({k \in DOMAIN gOut.zero_values.values : k[1] = PhaseKey(0)[1]})
         = Len(gOut.phase_steps)

\* whatever num_phases is passed: the values differ from the keys of the graph
\* only in phase keys
C18_OnlyPhaseKeysDiffer ==
  ValuesMade =>
    LET vals == DOMAIN gOut.zero_values.values
        keys == GraphKeys(gOut.out.graph)
        phaseKey(k) == k[1] = PhaseKey(0)[1]
    IN /\ {k \in vals : ~phaseKey(k)} = {k \in keys : ~phaseKey(k)}
       /\ {k \in keys : phaseKey(k)} = {PhaseKey(p - 1) : p \in DOMAIN gOut.phase_steps}
       /\ {k \in vals : phaseKey(k)} =
            IF gOut.num_phases > 0 THEN {PhaseKey(p) : p \in 0..gOut.num_phases} ELSE {}

(***************************************************************************)
(* Signs of the wrenches in the wrench-balance factor of the linear graph. *)
(***************************************************************************)
\* the coefficient with which key enters linear factor f (0 when it is absent)
CoefOf(f, key) ==
  SumSeq([k \in DOMAIN f.keys |-> IF f.keys[k] = key THEN f.coef[k] ELSE 0])

\* the wrench-balance factors of link i in graph g at timestep t
WrenchBalanceOf(g, i, t) ==
  {f \in DOMAIN g : g[f].kind \in LinearWrenchKinds /\ g[f].keys[1] = TwistAccelKey(i, t)}

\* C19: in the wrench-balance factor of a link the wrench of an incident
\* joint has a negative coefficient when the link is the joint's parent and
\* a positive coefficient when the link is the joint's child.
C19_WrenchSignBySide ==
  (gOut.fn = "linearDynamicsGraph" /\ gOut.out.threw = "") =>
    \A i \in DOMAIN gIn.robot.links : \A f \in WrenchBalanceOf(gOut.out.graph, i, gIn.t) :
      \A j \in DOMAIN gIn.robot.joints :
        /\ gIn.robot.joints[j].parent = i =>
             CoefOf(gOut.out.graph[f], WrenchKey(i, j, gIn.t)) < 0
        /\ gIn.robot.joints[j].child = i =>
             CoefOf(gOut.out.graph[f], WrenchKey(i, j, gIn.t)) > 0

\* what the graph does: every incident wrench is subtracted, on the parent
\* side and on the child side alike; the two sides of a joint are tied by the
\* wrench equivalence factor only
C19_EveryWrenchSubtracted ==
  (gOut.fn = "linearDynamicsGraph" /\ gOut.out.threw = "") =>
    /\ \A i \in DOMAIN gIn.robot.links : \A f \in WrenchBalanceOf(gOut.out.graph, i, gIn.t) :
         \A k \in 2..Len(gOut.out.graph[f].keys) :
           /\ gOut.out.graph[f].coef[k] = -1
           /\ \E j \in Range(getJoints(gIn.robot, i)) :
                gOut.out.graph[f].keys[k] = WrenchKey(i, j, gIn.t)
    /\ \A f \in DOMAIN gOut.out.graph :
         gOut.out.graph[f].kind = "WrenchEquivalence" => gOut.out.graph[f].coef = <<1, 1>>

(***************************************************************************)
(* The wrench-balance residual (WrenchFactor::unwhitenedError), in the     *)
(* plane: a twist, twist acceleration or wrench is <<about z, along x,     *)
(* along y>>, the inertia is [izz, mass], the pose is its rotation about z *)
(* in quarter turns, gravity is <<along x, along y>> in the world frame.   *)
(* The tests with gravity are in tenths: 4.9, 6.8 and 9.8 are 49, 68, 98.  *)
(***************************************************************************)
Zero3 == <<0, 0, 0>>

Plus3(a, b) == <<a[1] + b[1], a[2] + b[2], a[3] + b[3]>>
Minus3(a, b) == <<a[1] - b[1], a[2] - b[2], a[3] - b[3]>>

RECURSIVE SumWrenches(_)
SumWrenches(wrenches) ==
  IF wrenches = << >> THEN Zero3 ELSE Plus3(Head(wrenches), SumWrenches(Tail(wrenches)))

\* inertia * twist_accel
InertiaTimes(inertia, x) == <<inertia.izz * x[1], inertia.mass * x[2], inertia.mass * x[3]>>

\* ad(V)^T * G * V of a planar twist: no moment, force -w x (m v)
BiasTerm(inertia, twist) ==
  <<0, inertia.mass * twist[1] * twist[3], 0 - inertia.mass * twist[1] * twist[2]>>

\* m * R^T * g for a link turned by pose quarter turns
GravityInLink(inertia, pose, gravity) ==
  IF gravity = None THEN Zero3
  ELSE LET g == gravity[1]
           c == Cos4(pose)
           s == Cos4(pose + 3)
       IN <<0, inertia.mass * (c * g[1] + s * g[2]), inertia.mass * (c * g[2] - s * g[1])>>

\* the residual with the gravity force added instead of subtracted
unwhitenedErrorGravityAdded(inertia, gravity, twist, twist_accel, wrenches, pose) ==
  Plus3(Minus3(Minus3(InertiaTimes(inertia, twist_accel), SumWrenches(wrenches)),
               BiasTerm(inertia, twist)),
        GravityInLink(inertia, pose, gravity))

unwhitenedError(inertia, gravity, twist, twist_accel, wrenches, pose) ==
  Minus3(Minus3(Minus3(InertiaTimes(inertia, twist_accel), SumWrenches(wrenches)),
                BiasTerm(inertia, twist)),
         GravityInLink(inertia, pose, gravity))

\* the values of the tests and a few around them
WrenchValues ==
  {<<-10, 0, 49>>, <<10, 0, 49>>, <<0, 0, 10>>, <<0, 0, 20>>, <<0, 0, 68>>,
   <<4, -1, 2>>, <<-4, 0, -1>>, <<0, 49, 0>>}

TwistValues == {Zero3, <<1, 0, 1>>}

WrenchInputs ==
  [inertia : {[izz |-> 0, mass |-> 1]},
   gravity : {None, Some(<<0, -98>>)},
   twist : TwistValues, twist_accel : TwistValues,
   wrenches : UNION {[1..n -> WrenchValues] : n \in 0..4},
   pose : {0, 1}]

WrenchInit ==
  /\ gIn \in WrenchInputs
  /\ gOut = NoCall
  /\ SimIdle
  /\ RobotIdle

UnwhitenedError ==
  /\ gOut.fn = ""
  /\ gOut' = [fn |-> "unwhitenedError",
              out |-> unwhitenedError(gIn.inertia, gIn.gravity, gIn.twist, gIn.twist_accel,
                                      gIn.wrenches, gIn.pose)]
  /\ UNCHANGED <<gIn, simVars, robotVars>>

WrenchNext == UnwhitenedError

SpecWrench == WrenchInit /\ [][WrenchNext]_vars

\* the wrench-balance factor linearDynamicsGraph gives a free link of unit
\* mass with n joints, evaluated along y at the values of the call
LinearBalanceAlongY(n, pose, gravity, twist_accel, wrenches) ==
  LET robot == HubRobot(n, FALSE)
      fk == [poses |-> [name \in {robot.links[1].name} |-> pose]]
      g == IF gravity = None THEN None ELSE Some(gravity[1][2])
      f == linearLinkFactors(robot, 0, fk, g, 1)[1]
  IN f.coef[1] * twist_accel[3]
     + SumSeq([k \in 1..n |-> f.coef[k + 1] * wrenches[k][3]]) - f.rhs

\* the link is at rest under gravity and the wrenches carry it
Balanced ==
  /\ gIn.twist = Zero3 /\ gIn.twist_accel = Zero3 /\ gIn.gravity # None
  /\ SumWrenches(gIn.wrenches)
       = Minus3(Zero3, GravityInLink(gIn.inertia, gIn.pose, gIn.gravity))

\* C20: the wrench-balance residual is inertia * twist acceleration - sum of
\* the incident wrenches - velocity bias - gravity force in the link frame;
\* for a link at rest under gravity whose 2, 3 or 4 incident wrenches sum to
\* the negated gravity force with no net moment it is zero; with a resting
\* link and at most two wrenches it is the residual of the factor of
\* linearDynamicsGraph.
C20_WrenchBalanceResidual ==
  gOut.fn = "unwhitenedError" =>
    LET n == Len(gIn.wrenches)
        m == gIn.inertia.mass
        sum(c) == SumSeq([k \in 1..n |-> gIn.wrenches[k][c]])
        grav == GravityInLink(gIn.inertia, gIn.pose, gIn.gravity)
    IN /\ gOut.out[1] = gIn.inertia.izz * gIn.twist_accel[1] - sum(1) - 0 - grav[1]
       /\ gOut.out[2] = m * gIn.twist_accel[2] - sum(2)
                          - m * gIn.twist[1] * gIn.twist[3] - grav[2]
       /\ gOut.out[3] = m * gIn.twist_accel[3] - sum(3)
                          + m * gIn.twist[1] * gIn.twist[2] - grav[3]
       /\ (Balanced /\ n \in 2..4) => gOut.out = Zero3
       /\ (gIn.twist = Zero3 /\ n <= 2) =>
            gOut.out[3] = LinearBalanceAlongY(n, gIn.pose, gIn.gravity, gIn.twist_accel,
                                              gIn.wrenches)

\* TEST error4: four wrenches carrying the unit mass give a zero residual
C20_Witness ==
  /\ gOut.fn = "unwhitenedError" /\ Balanced /\ gIn.pose = 0
  /\ gIn.wrenches = << <<0, 0, 10>>, <<0, 0, 10>>, <<0, 0, 10>>, <<0, 0, 68>> >>
  /\ gOut.out = Zero3

\* TEST error2, error3 and error_nonzero, and a link turned a quarter
C20_TestsPass ==
  gOut.fn = "unwhitenedError" =>
    /\ (Balanced /\ gIn.wrenches = << <<-10, 0, 49>>, <<10, 0, 49>> >>) => gOut.out = Zero3
    /\ (Balanced /\ gIn.wrenches = << <<0, 0, 10>>, <<0, 0, 20>>, <<0, 0, 68>> >>)
         => gOut.out = Zero3
    /\ (/\ gIn.gravity = None /\ gIn.twist = <<1, 0, 1>> /\ gIn.twist_accel = <<1, 0, 1>>
        /\ gIn.wrenches = << <<4, -1, 2>>, <<-4, 0, -1>> >>) => gOut.out = Zero3

(***************************************************************************)
(* Planar factors (SpecGraph).                                             *)
(***************************************************************************)
\* the components of the wrench a planar Jacobian constrains: the column of
\* the 1 of each row
Selected(H) == {c \in 1..6 : \E r \in DOMAIN H : H[r][c] = 1}

ExpectedComponents(planar_axis) ==
  IF planar_axis = <<1, 0, 0>> THEN {2, 3, 4}
  ELSE IF planar_axis = <<0, 1, 0>> THEN {1, 3, 5}
  ELSE {1, 2, 6}

\* C21: with a planar axis every joint gets exactly one planar factor, on the
\* wrench of its child side, in the nonlinear and in the linear graph; the
\* Jacobian of the linear factor has three rows, each with a single 1, that
\* select 3 distinct components (x: 2,3,4; y: 1,3,5; z: 1,2,6) and set them
\* to zero; without a planar axis the graph has no planar factor.
C21_PlanarFactors ==
  LET robot == gIn.robot
      g == gOut.out.graph
      child(j) == WrenchKey(robot.joints[j].child, j, gIn.t)
  IN /\ (gOut.fn \in {"dynamicsFactors", "dynamicsFactorGraph"} /\ gOut.out.threw = "") =>
          LET planar == {f \in DOMAIN g : g[f].type = "WrenchPlanarFactor"}
          IN IF gIn.planar_axis = None THEN planar = {}
             ELSE /\ Cardinality(planar) = Len(robot.joints)
                  /\ \A j \in DOMAIN robot.joints :
                       Cardinality({f \in planar : g[f].keys = <<child(j)>>}) = 1
     /\ (gOut.fn = "linearDynamicsGraph" /\ gOut.out.threw = "") =>
          LET planar == {f \in DOMAIN g : g[f].kind = "WrenchPlanar"}
          IN IF gIn.planar_axis = None THEN planar = {}
             ELSE /\ Cardinality(planar) = Len(robot.joints)
                  /\ \A j \in DOMAIN robot.joints :
                       Cardinality({f \in planar : g[f].keys = <<child(j)>>}) = 1
                  /\ \A f \in planar :
                       /\ Len(g[f].J_wrench) = 3
                       /\ \A r \in 1..3 :
                            /\ Cardinality({c \in 1..6 : g[f].J_wrench[r][c] # 0}) = 1
                            /\ \A c \in 1..6 : g[f].J_wrench[r][c] \in {0, 1}
                       /\ Selected(g[f].J_wrench) = ExpectedComponents(gIn.planar_axis[1])
                       /\ Cardinality(Selected(g[f].J_wrench)) = 3
                       /\ g[f].rhs = 0

\* a linear graph of the loop robot with the y axis: three planar factors
C21_Witness ==
  /\ gOut.fn = "linearDynamicsGraph" /\ gOut.out.threw = ""
  /\ gIn.robot = LoopRobot /\ gIn.planar_axis = Some(<<0, 1, 0>>)
  /\ Cardinality({f \in DOMAIN gOut.out.graph : gOut.out.graph[f].kind = "WrenchPlanar"}) = 3

(***************************************************************************)
(* Order and size of the one-step graph (SpecGraph).                       *)
(***************************************************************************)
PriorTypes == {"PriorPose", "PriorTwist", "PriorTwistAccel"}

\* the builder a factor comes from: 1 q, 2 v, 3 a, 4 dynamics
GroupOf(f) ==
  IF f.type \in {"PriorPose", "PoseFactor"} THEN 1
  ELSE IF f.type \in {"PriorTwist", "TwistFactor"} THEN 2
  ELSE IF f.type \in {"PriorTwistAccel", "TwistAccelFactor"} THEN 3
  ELSE 4

LinkDerived(f) == f.type \in PriorTypes \cup WrenchFactorTypes

\* the link of a link-derived factor, the joint of a joint-derived one
LinkOf(f) == f.keys[1][2]
JointOf(f) == CHOOSE j \in {k[3] : k \in Range(f.keys)} : \A k \in Range(f.keys) : k[3] <= j

\* C22: dynamicsFactorGraph(robot, t) is qFactors, vFactors, aFactors and
\* dynamicsFactors one after the other; in each of the four the factors of
\* links come before the factors of joints, links in link order and joints
\* in joint order; it has 5*J + 2*F + L factors, and J more with a planar
\* axis.
C22_OneStepGraphOrder ==
  (gOut.fn = "dynamicsFactorGraph" /\ gOut.out.threw = "") =>
    LET robot == gIn.robot
        g == gOut.out.graph
        J == Len(robot.joints)
        L == Len(robot.links)
        F == Cardinality({i \in DOMAIN robot.links : robot.links[i].fixed})
        q == qFactors(robot, gIn.t)
        v == vFactors(robot, gIn.t)
        a == aFactors(robot, gIn.t)
        d == dynamicsFactors(robot, gIn.t, gIn.gravity, gIn.planar_axis).graph
    IN /\ Len(g) = 5 * J + 2 * F + L + (IF gIn.planar_axis # None THEN J ELSE 0)
       /\ SubSeq(g, 1, Len(q)) = q
       /\ SubSeq(g, Len(q) + 1, Len(q) + Len(v)) = v
       /\ SubSeq(g, Len(q) + Len(v) + 1, Len(q) + Len(v) + Len(a)) = a
       /\ SubSeq(g, Len(q) + Len(v) + Len(a) + 1, Len(g)) = d
       /\ \A x, y \in DOMAIN g :
            x < y =>
              /\ GroupOf(g[x]) <= GroupOf(g[y])
              /\ GroupOf(g[x]) = GroupOf(g[y]) =>
                   /\ LinkDerived(g[y]) => LinkDerived(g[x])
                   /\ (LinkDerived(g[x]) /\ LinkDerived(g[y])) => LinkOf(g[x]) < LinkOf(g[y])
                   /\ (~LinkDerived(g[x]) /\ ~LinkDerived(g[y]))
                        => JointOf(g[x]) <= JointOf(g[y])

\* the one-step graph of the loop robot with a planar axis: 5*3 + 2*1 + 3 + 3
C22_Witness ==
  /\ gOut.fn = "dynamicsFactorGraph" /\ gOut.out.threw = ""
  /\ gIn.robot = LoopRobot /\ gIn.planar_axis # None
  /\ Len(gOut.out.graph) = 23
  /\ gOut.out.graph[1].type = "PriorPose" /\ gOut.out.graph[23].type = "WrenchPlanarFactor"

(***************************************************************************)
(* Collocation groups of a multi-phase graph (SpecGraph).                  *)
(***************************************************************************)
IsPhaseKey(key) == key[1] = PhaseKey(0)[1]

\* the phase (from 1) whose collocation loop makes the group of timestep t
PhaseOfStep(phase_steps, t) ==
  CHOOSE p \in DOMAIN phase_steps :
    PhaseStart(phase_steps, p) <= t /\ t < PhaseStart(phase_steps, p) + phase_steps[p]

CollocationOf(g) == SelectSeq(g, LAMBDA f : f.type \in CollocationTypes)

\* C23: the collocation factors of a multi-phase graph are S groups, S the
\* sum of phase_steps, one for each t in 0..S-1 in this order; the group of a
\* step of phase p is the group of phase p's robot at t; each of its factors
\* has the duration key of phase p and no other phase key, so all factors of
\* a phase share one duration variable (a phase without a step, or whose
\* robot has no joint, has no factor and so no duration key).
C23_OneDurationPerPhase ==
  (gOut.fn = "multiPhaseTrajectoryFG" /\ gOut.out.threw = "") =>
    LET ps == gOut.phase_steps
        S == SumSeq(ps)
        robots == PhaseRobots(Len(ps))
        col == CollocationOf(gOut.out.graph)
        group(t) ==
          LET p == PhaseOfStep(ps, t)
          IN Concat([j \in DOMAIN robots[p].joints |->
                       collocationPair(j, t, <<PhaseKey(p - 1)>>, gOut.collocation)])
    IN /\ col = Concat([k \in 1..S |-> group(k - 1)])
       /\ \A f \in DOMAIN col :
            LET t == KeyTime(col[f].keys[2])
            IN /\ t \in 0..(S - 1)
               /\ {k \in Range(col[f].keys) : IsPhaseKey(k)}
                    = {PhaseKey(PhaseOfStep(ps, t) - 1)}
       /\ \A p \in DOMAIN ps :
            Cardinality({k \in GraphKeys(col) : IsPhaseKey(k) /\ k = PhaseKey(p - 1)})
              = IF ps[p] >= 1 /\ robots[p].joints # << >> THEN 1 ELSE 0

\* two steps of the loop robot and one of the chain: 2*3*2 + 1*2*2 factors
C23_Witness ==
  /\ gOut.fn = "multiPhaseTrajectoryFG" /\ gOut.out.threw = ""
  /\ gOut.phase_steps = <<2, 1>> /\ gIn.robot = LoopRobot
  /\ Len(CollocationOf(gOut.out.graph)) = 16
  /\ {k \in GraphKeys(CollocationOf(gOut.out.graph)) : IsPhaseKey(k)}
       = {PhaseKey(0), PhaseKey(1)}

(***************************************************************************)
(* COMFrames as a process: the robot is assembled from a description of    *)
(* four links and three joints between any of them (loops and joints from  *)
(* a link to itself included), then COMFrames runs one turn of its loop    *)
(* at a time.  robRet holds the locals of the call.                        *)
(***************************************************************************)
FrameLinks == {"a", "b", "c", "d"}
FrameJoints == {"j1", "j2", "j3"}

FrameInputs ==
  { [links_ |-> FrameLinks, joints_ |-> js] :
      js \in [FrameJoints -> [parent_link_name : FrameLinks, child_link_name : FrameLinks]] }

\* no description has been read yet
NoUrdf == [links_ |-> {}, joints_ |-> EmptyMap]

FramesInit ==
  /\ urdf = NoUrdf
  /\ rob = NoRobot
  /\ robRet = Ret("", "", "", NullLink)
  /\ SimIdle
  /\ GraphIdle

\* a description is read and the robot assembled from it
AssembleFrom ==
  /\ rob.state = "none"
  /\ \E u \in FrameInputs :
       /\ urdf' = u
       /\ Assembled(extract_structure_from_urdf(u))
  /\ UNCHANGED <<simVars, graphVars>>

\* lines 253-262
StartCOMFrames ==
  /\ rob.state = "constructed" /\ robRet.op = "UniversalRobot"
  /\ \E q_map \in {EmptyMap, [n \in {"j1"} |-> 1]} :
       LET got == getLinkByName(rob, rob.base_name_)
       IN /\ rob' = got.robot
          /\ robRet' = [op |-> "COMFrames", pc |-> "loop", q_map |-> q_map,
                        acc |-> framesStart(got, rob.base_name_, FALSE)]
  /\ UNCHANGED <<urdf, simVars, graphVars>>

\* lines 264-293: one turn of the loop
VisitJoint ==
  /\ robRet.op = "COMFrames" /\ robRet.pc = "loop"
  /\ robRet.acc.to_visit # << >>
  /\ robRet' = [robRet EXCEPT !.acc = visitJoint(rob, robRet.q_map, robRet.acc)]
  /\ rob' = cTpCOM(rob, robRet.acc.to_visit[Len(robRet.acc.to_visit)], 0).robot
  /\ UNCHANGED <<urdf, simVars, graphVars>>

\* line 295
ReturnFrames ==
  /\ robRet.op = "COMFrames" /\ robRet.pc = "loop"
  /\ robRet.acc.to_visit = << >>
  /\ robRet' = [robRet EXCEPT !.pc = "done"]
  /\ UNCHANGED <<rob, urdf, simVars, graphVars>>

FramesNext ==
  \/ AssembleFrom
  \/ StartCOMFrames
  \/ VisitJoint
  \/ ReturnFrames

SpecFrames == FramesInit /\ [][FramesNext]_vars

\* the call is one thread of control: once the robot is there it is called,
\* and it keeps running until it returns
SpecFramesFair ==
  SpecFrames /\ WF_vars(StartCOMFrames) /\ WF_vars(VisitJoint) /\ WF_vars(ReturnFrames)

\* the links within k joints of the base, from parent to child
RECURSIVE Within(_, _, _)
Within(r, links, k) ==
  IF k = 0 THEN links
  ELSE Within(r, links \cup {r.link_joints_[j].child :
                               j \in {x \in DOMAIN r.link_joints_ :
                                        r.link_joints_[x].parent \in links}}, k - 1)

ReachableLinks(r) == Within(r, {r.base_name_}, Len(r.link_bodies_))

ReachableJoints(r) ==
  {r.link_joints_[j].name : j \in {x \in DOMAIN r.link_joints_ :
                                     r.link_joints_[x].parent \in ReachableLinks(r)}}

\* the number of joints on the shortest way from the base to the child side
\* of the joint with this name
JointDepth(r, name) ==
  LET joint == FindByName(r.link_joints_, name, NullJointPtr)
  IN 1 + CHOOSE k \in 0..Len(r.link_bodies_) :
           /\ joint.parent \in Within(r, {r.base_name_}, k)
           /\ \A m \in 0..(k - 1) : joint.parent \notin Within(r, {r.base_name_}, m)

InCOMFrames == robRet.op = "COMFrames"

\* C24: COMFrames returns for every graph of links and joints, loops
\* included; it handles each joint reachable from the base exactly once, in
\* breadth-first order (never a joint nearer to the base after a farther
\* one); when it handles a joint the frame of the joint's parent link is
\* already there; at the return the frames are those of the reachable links,
\* one each.
C24_COMFramesTerminates ==
  /\ [](InCOMFrames =>
          LET acc == robRet.acc
          IN /\ ~acc.ub
             /\ ~HasDuplicates(acc.visited)
             /\ Range(acc.visited) \subseteq ReachableJoints(rob)
             /\ \A x, y \in DOMAIN acc.visited :
                  x < y => JointDepth(rob, acc.visited[x]) <= JointDepth(rob, acc.visited[y])
             /\ DOMAIN acc.com_frames \subseteq ReachableLinks(rob)
             /\ robRet.pc = "done" =>
                  /\ Range(acc.visited) = ReachableJoints(rob)
                  /\ DOMAIN acc.com_frames = ReachableLinks(rob))
  /\ [][(InCOMFrames /\ InCOMFrames' /\ robRet'.acc.visited # robRet.acc.visited) =>
          LET name == robRet.acc.to_visit[Len(robRet.acc.to_visit)]
              joint == FindByName(rob.link_joints_, name, NullJointPtr)
          IN /\ joint.parent \in DOMAIN robRet.acc.com_frames
             /\ robRet'.acc.visited = Append(robRet.acc.visited, name)
             /\ joint.child \in DOMAIN robRet'.acc.com_frames
             /\ \A n \in DOMAIN robRet.acc.com_frames :
                  robRet'.acc.com_frames[n] = robRet.acc.com_frames[n]]_vars
  /\ (rob.state = "constructed") ~> (InCOMFrames /\ robRet.pc = "done")

\* a loop a -> b -> c -> a was walked: three joints, three frames
C24_Witness ==
  /\ InCOMFrames /\ robRet.pc = "done"
  /\ Len(robRet.acc.visited) = 3
  /\ DOMAIN robRet.acc.com_frames = {"a", "b", "c"}
  /\ \E j \in DOMAIN rob.link_joints_ : rob.link_joints_[j].child = "a"

(***************************************************************************)
(* WalkCycle.  A contact point is [link, point]: the link it is on (the    *)
(* pointer, compared by identity) and the point in the link's frame; a     *)
(* phase is the list of contact points of its FootContactConstraintSpec.   *)
(* In this part rob is the WalkCycle and robRet what the last call gave.   *)
(***************************************************************************)
PointOnLink(link, point) == [link |-> link, point |-> point]

\* two points on one link and one of them on a second link as well
PointOnLinks ==
  {PointOnLink("foot1", 0), PointOnLink("foot1", 1), PointOnLink("foot2", 0)}

\* the contact point lists a phase can have, repetitions included
PhaseInputs == UNION {[1..n -> PointOnLinks] : n \in 0..2}

\* the contact points added when an entry on the same link is enough to skip
RECURSIVE addPhaseContactPointsByLink(_, _)
addPhaseContactPointsByLink(contact_points_, phase) ==
  IF phase = << >> THEN contact_points_
  ELSE LET kv == Head(phase)
           link_count == Cardinality({k \in DOMAIN contact_points_ :
                                        contact_points_[k].link = kv.link})
       IN addPhaseContactPointsByLink(IF link_count = 0 THEN Append(contact_points_, kv)
                                      ELSE contact_points_, Tail(phase))

\* lines 37-49
RECURSIVE addPhaseContactPoints(_, _)
addPhaseContactPoints(contact_points_, phase) ==
  IF phase = << >> THEN contact_points_
  ELSE LET kv == Head(phase)
           link_count == Cardinality({k \in DOMAIN contact_points_ :
                                        /\ contact_points_[k].point = kv.point
                                        /\ contact_points_[k].link = kv.link})
       IN addPhaseContactPoints(IF link_count = 0 THEN Append(contact_points_, kv)
                                ELSE contact_points_, Tail(phase))

\* WalkCycle::addPhase: the phase is kept and its contact points are added
addPhase(wc, phase) ==
  [wc EXCEPT !.phases_ = Append(@, phase),
             !.contact_points_ = addPhaseContactPoints(@, phase)]

\* getIntersection: the contact points of the first list that the second has
getIntersection(phase_1_cps, phase_2_cps) ==
  SelectSeq(phase_1_cps, LAMBDA cp : \E k \in DOMAIN phase_2_cps : phase_2_cps[k] = cp)

\* lines 143-160.  phases_.size() - 1 is unsigned: for no phase it is the
\* largest size_t, the loop is entered and phases_[0], phases_[1] are read
\* from an empty vector.  [ub, reads, value]: whether that happened, the
\* indices read (from 0), the list returned by a loop that stayed in range.
transitionContactPoints(wc) ==
  IF wc.phases_ = << >>
  THEN [ub |-> TRUE, reads |-> {0, 1}, value |-> << >>]
  ELSE [ub |-> FALSE,
        reads |-> UNION {{p - 1, p} : p \in 1..(Len(wc.phases_) - 1)},
        value |-> [p \in 1..(Len(wc.phases_) - 1) |->
                     getIntersection(wc.phases_[p], wc.phases_[p + 1])]]

NoWalkCycle == [state |-> "running", phases_ |-> << >>, contact_points_ |-> << >>]

WalkInit ==
  /\ rob = NoWalkCycle
  /\ robRet = [op |-> "", outcome |-> "", ub |-> FALSE, reads |-> {}, value |-> << >>]
  /\ urdf = << >>
  /\ SimIdle
  /\ GraphIdle

AddPhase ==
  /\ rob.state = "running" /\ Len(rob.phases_) < MaxWalkPhases
  /\ \E phase \in PhaseInputs :
       /\ rob' = addPhase(rob, phase)
       /\ robRet' = [op |-> "addPhase", outcome |-> "returned", ub |-> FALSE, reads |-> {},
                     value |-> phase]
  /\ UNCHANGED <<urdf, simVars, graphVars>>

\* what a read outside the vector can end in: the process is killed, an
\* exception leaves the call, or the call returns whatever it built
WalkOutcomes(ub) == IF ub THEN {"crashed", "threw", "returned"} ELSE {"returned"}

TransitionContactPoints ==
  /\ rob.state = "running"
  /\ LET r == transitionContactPoints(rob)
     IN \E outcome \in WalkOutcomes(r.ub) :
          \E value \in (IF r.ub THEN {<< >>, << << >> >>} ELSE {r.value}) :
            /\ rob' = [rob EXCEPT !.state = IF outcome = "crashed" THEN "crashed" ELSE @]
            /\ robRet' = [op |-> "transitionContactPoints", outcome |-> outcome, ub |-> r.ub,
                          reads |-> r.reads,
                          value |-> IF outcome = "returned" THEN value ELSE << >>]
  /\ UNCHANGED <<urdf, simVars, graphVars>>

WalkNext ==
  \/ AddPhase
  \/ TransitionContactPoints

SpecWalk == WalkInit /\ [][WalkNext]_vars

\* the entries of a list that no earlier entry equals, in their order
FirstAppearances(seq) ==
  SelectSeq([k \in DOMAIN seq |-> [at |-> k, cp |-> seq[k]]],
            LAMBDA e : \A m \in 1..(e.at - 1) : seq[m] # e.cp)

\* C25: after any sequence of phases has been added, the contact-point list
\* of the WalkCycle holds every contact point of every added phase exactly
\* once (no two entries agree in link and point), in the order in which
\* they first appear in the phases.
C25_ContactPointsOnce ==
  LET all == Concat(rob.phases_)
      first == FirstAppearances(all)
  IN /\ ~HasDuplicates(rob.contact_points_)
     /\ Range(rob.contact_points_) = Range(all)
     /\ rob.contact_points_ = [k \in DOMAIN first |-> first[k].cp]

\* three phases that repeat points: all three points are in the list once
C25_Witness ==
  /\ Len(rob.phases_) = 3
  /\ rob.phases_[1] = <<PointOnLink("foot1", 1), PointOnLink("foot1", 1)>>
  /\ rob.phases_[3] = <<PointOnLink("foot1", 0), PointOnLink("foot1", 1)>>
  /\ rob.contact_points_
       = <<PointOnLink("foot1", 1), PointOnLink("foot2", 0), PointOnLink("foot1", 0)>>

\* C26: transitionContactPoints returns numPhases-1 entries (none for fewer
\* than two phases), entry p the contact points phase p and phase p+1 have
\* in common, and reads no phase index outside 0..numPhases-1.
C26_TransitionContactPoints ==
  robRet.op = "transitionContactPoints" =>
    LET n == Len(rob.phases_)
    IN /\ robRet.outcome = "returned"
       /\ robRet.reads \subseteq 0..(n - 1)
       /\ Len(robRet.value) = IF n >= 2 THEN n - 1 ELSE 0
       /\ \A p \in DOMAIN robRet.value :
            Range(robRet.value[p]) = Range(rob.phases_[p]) \cap Range(rob.phases_[p + 1])

\* with at least one phase the call does all that
C26_HoldsWithAPhase ==
  (robRet.op = "transitionContactPoints" /\ rob.phases_ # << >>) =>
    LET n == Len(rob.phases_)
    IN /\ robRet.outcome = "returned" /\ ~robRet.ub
       /\ robRet.reads \subseteq 0..(n - 1)
       /\ Len(robRet.value) = n - 1
       /\ \A p \in DOMAIN robRet.value :
            Range(robRet.value[p]) = Range(rob.phases_[p]) \cap Range(rob.phases_[p + 1])

(***************************************************************************)
(* PenaltyMethodOptimizer::optimize, one turn of its loop at a time.  gIn  *)
(* holds the arguments and the parameters p_, gOut the locals of the call  *)
(* and, in solves, what was handed to each LevenbergMarquardtOptimizer and *)
(* what it gave back.  The solver and createFactor are not part of the     *)
(* optimizer: their results are the terms lm(...) and factor(...).         *)
(***************************************************************************)
createFactor(constraint, mu) == [constraint |-> constraint, mu |-> mu]

LevenbergMarquardt(merit_graph, values) == [lm |-> merit_graph, from |-> values]

\* the loop body with the penalty raised by adding the rate
iterateAddingRate(l, graph, constraints, params) ==
  LET merit_graph == graph \o [c \in DOMAIN constraints |-> createFactor(constraints[c], l.mu)]
      result == LevenbergMarquardt(merit_graph, l.values)
  IN [pc |-> "loop", i |-> l.i + 1, values |-> result, mu |-> l.mu + params.mu_increase_rate,
      solves |-> Append(l.solves, [mu |-> l.mu, merit_graph |-> merit_graph,
                                   start |-> l.values, result |-> result])]

\* lines 28-41
iterate(l, graph, constraints, params) ==
  LET merit_graph == graph \o [c \in DOMAIN constraints |-> createFactor(constraints[c], l.mu)]
      result == LevenbergMarquardt(merit_graph, l.values)
  IN [pc |-> "loop", i |-> l.i + 1, values |-> result, mu |-> l.mu * params.mu_increase_rate,
      solves |-> Append(l.solves, [mu |-> l.mu, merit_graph |-> merit_graph,
                                   start |-> l.values, result |-> result])]

OptimizeInputs ==
  [graph : {<< >>, <<"f1">>, <<"f1", "f2">>},
   constraints : UNION {[1..n -> {"c1", "c2"}] : n \in 0..2},
   initial_values : {"x0"},
   params : [initial_mu : {1, 2}, mu_increase_rate : {2, 3},
             num_iterations : 0..MaxIterations]]

\* lines 23-24
OptimizeInit ==
  /\ gIn \in OptimizeInputs
  /\ gOut = [pc |-> "loop", i |-> 0, values |-> gIn.initial_values,
             mu |-> gIn.params.initial_mu, solves |-> << >>]
  /\ SimIdle
  /\ RobotIdle

\* lines 27-42: one turn
Iterate ==
  /\ gOut.pc = "loop" /\ gOut.i < gIn.params.num_iterations
  /\ gOut' = iterate(gOut, gIn.graph, gIn.constraints, gIn.params)
  /\ UNCHANGED <<gIn, simVars, robotVars>>

\* line 43
ReturnValues ==
  /\ gOut.pc = "loop" /\ ~(gOut.i < gIn.params.num_iterations)
  /\ gOut' = [gOut EXCEPT !.pc = "done"]
  /\ UNCHANGED <<gIn, simVars, robotVars>>

OptimizeNext ==
  \/ Iterate
  \/ ReturnValues

SpecOptimize == OptimizeInit /\ [][OptimizeNext]_vars

RECURSIVE Pow(_, _)
Pow(b, e) == IF e = 0 THEN 1 ELSE b * Pow(b, e - 1)

\* C27: optimize runs num_iterations solves; solve i (from 0) has the
\* penalty initial_mu * mu_increase_rate^i and a merit graph that is the
\* input graph followed by one factor per constraint at that penalty, and
\* nothing of earlier turns; it starts from the result of solve i-1, the
\* first from the initial values; the values returned are the last result,
\* or the initial values when num_iterations is 0.
C27_PenaltyLoop ==
  LET params == gIn.params
      n == Len(gIn.graph)
      m == Len(gIn.constraints)
  IN /\ Len(gOut.solves) = gOut.i /\ gOut.i <= params.num_iterations
     /\ \A k \in DOMAIN gOut.solves :
          LET solve == gOut.solves[k]
          IN /\ solve.mu = params.initial_mu * Pow(params.mu_increase_rate, k - 1)
             /\ Len(solve.merit_graph) = n + m
             /\ SubSeq(solve.merit_graph, 1, n) = gIn.graph
             /\ \A c \in 1..m :
                  solve.merit_graph[n + c] = createFactor(gIn.constraints[c], solve.mu)
             /\ solve.start = IF k = 1 THEN gIn.initial_values ELSE gOut.solves[k - 1].result
             /\ solve.result = LevenbergMarquardt(solve.merit_graph, solve.start)
     /\ gOut.pc = "done" =>
          /\ Len(gOut.solves) = params.num_iterations
          /\ gOut.values = IF params.num_iterations = 0 THEN gIn.initial_values
                           ELSE gOut.solves[params.num_iterations].result

\* three solves with two constraints were run and the last result returned
C27_Witness ==
  /\ gOut.pc = "done" /\ gIn.params.num_iterations = 3
  /\ gIn.params.initial_mu = 2 /\ gIn.params.mu_increase_rate = 3
  /\ gIn.constraints = <<"c1", "c2">> /\ gIn.graph = <<"f1">>
  /\ gOut.solves[3].mu = 18
  /\ gOut.values = gOut.solves[3].result


(***************************************************************************)
(* InitializeSolutionInterpolation and its multi-phase form.  Times are    *)
(* whole numbers of a common unit; a pose is a position on a line.  gIn    *)
(* holds the arguments, gOut the locals of the multi-phase call and, in    *)
(* phases, the Values each single-phase call returned.  Each single-phase  *)
(* call builds its own Sampler, so the k-th draw of a call is the same     *)
(* term Sample(k) in every call.  forwardKinematics of Robot and the       *)
(* interpolation of poses are kept as terms.                               *)
(***************************************************************************)
ContactWrenchKey(i, k, t) == <<"C", i, k, t>>

Sample(k) == [draw |-> k]

\* std::round of T / dt for T >= 0 and dt > 0: halves go away from zero
RoundDiv(T, dt) == (2 * T + dt) \div (2 * dt)

\* the id of the link a contact point names, -1 when the robot has none
contactLinkId(robot, contact_point) ==
  IF \E i \in DOMAIN robot.links : robot.links[i].name = contact_point.name
  THEN CHOOSE i \in DOMAIN robot.links :
         /\ robot.links[i].name = contact_point.name
         /\ \A m \in DOMAIN robot.links : robot.links[m].name = contact_point.name => m <= i
  ELSE -1

\* Robot::forwardKinematics from a link of known pose: a pose for every link
forwardKinematicsFrom(robot, link_name, wTl_t) ==
  [n \in {robot.links[i].name : i \in DOMAIN robot.links} |->
     [link |-> n, from |-> link_name, wTl |-> wTl_t]]

\* lines 80-118: what one timestep inserts, as <<key, value>> in order;
\* `drawn` is the number of draws the sampler has made before the timestep
stepInserts(robot, link_name, wTl_i, wTl_f, s, cps, t, drawn) ==
  LET wTl_t == [i |-> wTl_i, f |-> wTl_f, s |-> s, noise |-> Sample(drawn + 1)]
      fk == forwardKinematicsFrom(robot, link_name, wTl_t)
      poses == [i \in DOMAIN robot.links |-> <<PoseKey(i, t), fk[robot.links[i].name]>>]
      L == Len(robot.links)
      links == Concat([i \in DOMAIN robot.links |->
                 << <<TwistKey(i, t), Sample(drawn + 2 * i)>>,
                    <<TwistAccelKey(i, t), Sample(drawn + 2 * i + 1)>> >>])
      jd(j) == drawn + 1 + 2 * L + 6 * (j - 1)
      joints == Concat([j \in DOMAIN robot.joints |->
                 << <<WrenchKey(robot.joints[j].parent, j, t), Sample(jd(j) + 1)>>,
                    <<WrenchKey(robot.joints[j].child, j, t), Sample(jd(j) + 2)>>,
                    <<TorqueKey(j, t), Sample(jd(j) + 3)>>,
                    <<JointAngleKey(j, t), Sample(jd(j) + 4)>>,
                    <<JointVelKey(j, t), Sample(jd(j) + 5)>>,
                    <<JointAccelKey(j, t), Sample(jd(j) + 6)>> >>])
      cd == drawn + 1 + 2 * L + 6 * Len(robot.joints)
      contacts == [c \in DOMAIN cps |->
                    <<ContactWrenchKey(contactLinkId(robot, cps[c]), cps[c].contact_id, t),
                      Sample(cd + c)>>]
  IN poses \o links \o joints \o contacts

\* the draws of one timestep: pose noise, two per link, six per joint, one
\* per contact point
drawsPerStep(robot, cps) == 1 + 2 * Len(robot.links) + 6 * Len(robot.joints) + Len(cps)

\* Values::insert of a list of pairs into an empty container
insertAll(pairs) ==
  LET keys == [k \in DOMAIN pairs |-> pairs[k][1]]
  IN IF HasDuplicates(keys) THEN [threw |-> "ValuesKeyAlreadyExists", values |-> EmptyMap]
     ELSE [threw |-> "",
           values |-> [key \in Range(keys) |->
                         pairs[CHOOSE k \in DOMAIN pairs : pairs[k][1] = key][2]]]

\* lines 42-124
InitializeSolutionInterpolation(robot, link_name, wTl_i, wTl_f, T_s, T_f, dt, contact_points) ==
  LET n_steps_init == RoundDiv(T_s, dt)
      n_steps_final == RoundDiv(T_f, dt)
      cps == IF contact_points = None THEN << >> ELSE contact_points[1]
      drawn0 == 2 * Len(robot.joints)
      D == drawsPerStep(robot, cps)
      n_steps == IF n_steps_final >= n_steps_init THEN n_steps_final - n_steps_init + 1 ELSE 0
      pairs == Concat([m \in 1..n_steps |->
                 stepInserts(robot, link_name, wTl_i, wTl_f,
                             <<(m - 1) * dt, T_f - T_s>>, cps,
                             n_steps_init + m - 1, drawn0 + (m - 1) * D)])
      missing == \E c \in DOMAIN cps : contactLinkId(robot, cps[c]) = -1
      firstMissing == CHOOSE c \in DOMAIN cps :
                        /\ contactLinkId(robot, cps[c]) = -1
                        /\ \A m \in DOMAIN cps : contactLinkId(robot, cps[m]) = -1 => c <= m
      firstStep == stepInserts(robot, link_name, wTl_i, wTl_f, <<0, T_f - T_s>>,
                               SubSeq(cps, 1, firstMissing - 1), n_steps_init, drawn0)
  IN IF n_steps = 0 THEN [threw |-> "", values |-> EmptyMap]
     ELSE IF missing
     THEN IF insertAll(firstStep).threw # "" THEN insertAll(firstStep)
          ELSE [threw |-> "runtime_error", values |-> EmptyMap]
     ELSE insertAll(pairs)

\* the phase values written over what init_vals holds
insertOrAssignAll(init_vals, phase_vals) ==
  [key \in DOMAIN init_vals \cup DOMAIN phase_vals |->
     IF key \in DOMAIN phase_vals THEN phase_vals[key] ELSE init_vals[key]]

\* lines 138-139: Values::tryInsert leaves a key that exists as it is
tryInsertAll(init_vals, phase_vals) ==
  [key \in DOMAIN init_vals \cup DOMAIN phase_vals |->
     IF key \in DOMAIN init_vals THEN init_vals[key] ELSE phase_vals[key]]

\* lines 135-141: one turn of the loop over the phases
interpolatePhase(l, a) ==
  LET i == l.i + 1
      phase == InitializeSolutionInterpolation(a.robot, a.link_name, l.pose, a.wTl_t[i],
                                               l.curr_t, a.ts[i], a.dt, a.contact_points)
  IN IF phase.threw # ""
     THEN [l EXCEPT !.pc = "threw", !.threw = phase.threw]
     ELSE [l EXCEPT !.i = i, !.init_vals = tryInsertAll(l.init_vals, phase.values),
                    !.pose = a.wTl_t[i], !.curr_t = a.ts[i],
                    !.phases = Append(l.phases, phase.values)]

ContactPointLists ==
  LET cp(i, k) == [name |-> LinkName(i), contact_id |-> k]
  IN {None, Some(<< >>), Some(<<cp(2, 0)>>), Some(<<cp(2, 0), cp(3, 0)>>),
      Some(<<cp(2, 0), cp(2, 1)>>), Some(<<cp(2, 0), cp(2, 0)>>), Some(<<cp(2, 0), cp(9, 0)>>)}

InterpolationInputs ==
  UNION {[robot : {ChainRobot, HubRobot(0, TRUE), LoopRobot}, link_name : {LinkName(1)},
          wTl_i : {0}, wTl_t : [1..n -> {5, 7}], ts : [1..n -> 0..MaxTime], dt : {1, 2},
          contact_points : ContactPointLists] : n \in 0..MaxInterpPhases}

\* lines 131-133
InterpolationInit ==
  /\ gIn \in InterpolationInputs
  /\ gOut = [pc |-> "loop", i |-> 0, pose |-> gIn.wTl_i, curr_t |-> 0,
             init_vals |-> EmptyMap, threw |-> "", phases |-> << >>]
  /\ SimIdle
  /\ RobotIdle

\* lines 134-142: one turn
InterpolatePhase ==
  /\ gOut.pc = "loop" /\ gOut.i < Len(gIn.wTl_t)
  /\ gOut' = interpolatePhase(gOut, gIn)
  /\ UNCHANGED <<gIn, simVars, robotVars>>

\* line 143
ReturnInitVals ==
  /\ gOut.pc = "loop" /\ ~(gOut.i < Len(gIn.wTl_t))
  /\ gOut' = [gOut EXCEPT !.pc = "done"]
  /\ UNCHANGED <<gIn, simVars, robotVars>>

InterpolationNext ==
  \/ InterpolatePhase
  \/ ReturnInitVals

SpecInterpolation == InterpolationInit /\ [][InterpolationNext]_vars

\* the variable keys of timestep t: those of zeroValues and one contact
\* wrench per contact point
VariableKeys(robot, contact_points, t) ==
  Range(zeroKeys(robot, t))
  \cup (IF contact_points = None THEN {}
        ELSE {ContactWrenchKey(contactLinkId(robot, contact_points[1][c]),
                               contact_points[1][c].contact_id, t) :
                c \in DOMAIN contact_points[1]})

\* the contact points are different points on links of the robot
ContactPointsDistinct(robot, contact_points) ==
  \/ contact_points = None
  \/ /\ ~HasDuplicates(contact_points[1])
     /\ \A c \in DOMAIN contact_points[1] : contactLinkId(robot, contact_points[1][c]) # -1

FailConfigs ==
  { [robot |-> ChainRobot,
     initial_angles |-> (JointName(1) :> 0),
     initial_vels |-> (JointName(1) :> 1) @@ (JointName(2) :> 0),
     gravity |-> Some(-2), planar_axis |-> None],
    [robot |-> ChainRobot,
     initial_angles |-> (JointName(1) :> 0) @@ (JointName(2) :> 1),
     initial_vels |-> (JointName(2) :> 0),
     gravity |-> Some(-2), planar_axis |-> None],
    [robot |-> ChainRobot,
     initial_angles |-> (JointName(1) :> 0) @@ (JointName(2) :> 1),
     initial_vels |-> (JointName(1) :> 1) @@ (JointName(2) :> 0),
     gravity |-> Some(-2), planar_axis |-> None],
    [robot |-> StarRobot,
     initial_angles |-> ConstMap(StarRobot, 0), initial_vels |-> ConstMap(StarRobot, 1),
     gravity |-> Some(-2), planar_axis |-> None] }

FailInit ==
  /\ \E c \in FailConfigs : sim = NewSimulator(c) /\ fresh = NewSimulator(c)
  /\ replaying = FALSE
  /\ simRet = [seq |-> 0, op |-> "Simulator", threw |-> "", torques |-> <<>>, dt |-> 0, t |-> 0]
  /\ since = [t0 |-> 0, n |-> 0, prior |-> 0]
  /\ GraphIdle
  /\ RobotIdle

SpecSimFail == FailInit /\ [][SimNext]_vars

\* this transition is a call of step in which forwardDynamics threw
ForwardDynamicsThrew ==
  /\ simRet'.seq # simRet.seq /\ simRet'.op = "step"
  /\ forwardDynamics(sim, simRet'.torques[1]).threw # ""

\* C29: a step in which forwardDynamics throws (the solve is singular, or a
\* torque, an angle or a velocity of some joint is missing) throws, and
\* leaves t_, qs_, vs_, as_ and results_ as they were before the step.
C29_FailedStepChangesNothing ==
  [][ForwardDynamicsThrew =>
       /\ simRet'.threw # ""
       /\ sim'.t_ = sim.t_
       /\ sim'.qs_ = sim.qs_
       /\ sim'.vs_ = sim.vs_
       /\ sim'.as_ = sim.as_
       /\ sim'.results_ = sim.results_]_vars

\* after one step that succeeded, a step without the torque of joint 1
\* threw, and the Simulator is still at timestep 1 with the log of one step
C29_Witness ==
  /\ simRet.op = "step" /\ simRet.threw = "out_of_range" /\ simRet.seq = 2
  /\ JointName(1) \notin DOMAIN simRet.torques[1]
  /\ sim.t_ = 1 /\ since.n = 1
  /\ DOMAIN sim.results_ = StepKeys(sim.robot_, 0)



(***************************************************************************)
(* multiPhaseTrajectoryFG: the timesteps of its dynamics sub-graphs        *)
(* against those of its collocation factors (SpecGraph).                   *)
(***************************************************************************)
\* the timesteps that have a dynamics factor in g
DynamicsTimes(g) ==
  {KeyTime(g[f].keys[1]) :
     f \in {k \in DOMAIN g : g[k].type \notin CollocationTypes /\ g[k].type # "Transition"}}

\* the timesteps t from which g has a collocation factor to t + 1
CollocationSteps(g) ==
  LET times(f) == {KeyTime(g[f].keys[k]) : k \in {m \in DOMAIN g[f].keys : ~IsPhaseKey(g[f].keys[m])}}
  IN {CHOOSE t \in times(f) : \A u \in times(f) : t <= u :
        f \in {k \in DOMAIN g : g[k].type \in CollocationTypes}}

\* multiPhaseTrajectoryFG returned a graph for robots that all have joints
MultiPhaseBuilt ==
  /\ gOut.fn = "multiPhaseTrajectoryFG" /\ gOut.out.threw = ""
  /\ gIn.robot.joints # << >>

\* the last timestep with a dynamics sub-graph is the sum of phase_steps,
\* every collocation factor ends at a timestep up to it, and every timestep
\* from 1 to it has a collocation factor from the timestep before
SubGraphsMatchCollocation ==
  LET g == gOut.out.graph
      S == SumSeq(gOut.phase_steps)
      last == CHOOSE t \in DynamicsTimes(g) : \A u \in DynamicsTimes(g) : u <= t
  IN /\ last = S
     /\ \A t \in CollocationSteps(g) : t + 1 <= last
     /\ \A t \in 1..last : (t - 1) \in CollocationSteps(g)

\* C30: for every phase_steps, phases of 0 steps included, the last timestep
\* of multiPhaseTrajectoryFG that gets a dynamics or transition sub-graph is
\* the sum of phase_steps, no collocation factor reaches a timestep beyond
\* it, and every timestep after 0 is linked by collocation to the one before.
C30_SubGraphsMatchCollocation == MultiPhaseBuilt => SubGraphsMatchCollocation

\* the same holds when every phase has at least one step
C30_HoldsWithSteps ==
  (MultiPhaseBuilt /\ \A p \in DOMAIN gOut.phase_steps : gOut.phase_steps[p] >= 1)
    => SubGraphsMatchCollocation

=============================================================================
